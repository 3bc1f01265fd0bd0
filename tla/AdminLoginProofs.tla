-------------------------- MODULE AdminLoginProofs --------------------------
(* Machine-checked facts about AdminLogin, for every value of its constants. *)
EXTENDS AdminLogin, TLAPS

\* Whoever looks the main user up does so because none was kept, and the lock
\* sees to it that none is kept in the meantime.
LookupMeansNil == \A l \in Logins : pc[l] = "get" => user = Nil

IInv == TypeOK /\ LockDiscipline /\ OutageNeverKept /\ LookupMeansNil

\* The initial state satisfies the inductive invariant.
LEMMA InitIInv == Init => IInv
  BY AdminLoginAssumption
  DEF Init, IInv, TypeOK, Stages, Names, LockDiscipline, OutageNeverKept, LookupMeansNil

\* Every step of a login keeps the inductive invariant.
LEMMA StepIInv == IInv /\ [Next]_vars => IInv'
<1> SUFFICES ASSUME IInv, [Next]_vars PROVE IInv'
  OBVIOUS
<1> USE AdminLoginAssumption
<1>1. ASSUME NEW l \in Logins, Director(l) \/ ModifyResp(l) \/ Finish(l) PROVE IInv'
  BY <1>1 DEF Director, ModifyResp, Finish, Goto, Over, IInv, TypeOK, Stages, Names, LockDiscipline,
     OutageNeverKept, LookupMeansNil
<1>2. ASSUME NEW l \in Logins, Lock(l) PROVE IInv'
  BY <1>2 DEF Lock, Goto, IInv, TypeOK, Stages, LockDiscipline, OutageNeverKept, LookupMeansNil
<1>3. ASSUME NEW l \in Logins, UseKnown(l) PROVE IInv'
  BY <1>3 DEF UseKnown, Known, SendAs, NameOf, Goto, IInv, TypeOK, Stages, Names, LockDiscipline,
     OutageNeverKept, LookupMeansNil
<1>4. ASSUME NEW l \in Logins, GetUnreachable(l) \/ GetGarbled(l) PROVE IInv'
  BY <1>4 DEF GetUnreachable, GetGarbled, LockAfterError, Goto, IInv, TypeOK, Stages,
     LockDiscipline, OutageNeverKept, LookupMeansNil
<1>5. ASSUME NEW l \in Logins, GetNotFound(l) PROVE IInv'
  <2>1. \A m \in Logins : pc[m] = "get" => m = l
    BY <1>5 DEF GetNotFound, IInv, LockDiscipline
  <2>2. TypeOK' /\ OutageNeverKept'
    BY <1>5 DEF GetNotFound, SendAs, Goto, IInv, TypeOK, Stages, Names, OutageNeverKept
  <2>3. LockDiscipline' /\ LookupMeansNil'
    BY <1>5, <2>1 DEF GetNotFound, SendAs, Goto, IInv, TypeOK, LockDiscipline, LookupMeansNil
  <2> QED
    BY <2>2, <2>3 DEF IInv
<1>6. ASSUME NEW l \in Logins, GetOtherStatus(l) PROVE IInv'
  BY <1>6 DEF GetOtherStatus, KeptOnOtherStatus, Degrade, SendAs, Goto, IInv, TypeOK, Stages, Names,
     LockDiscipline, OutageNeverKept, LookupMeansNil
<1>7. ASSUME NEW l \in Logins, GetUser(l) PROVE IInv'
  <2>1. \A m \in Logins : pc[m] = "get" => m = l
    BY <1>7 DEF GetUser, IInv, LockDiscipline
  <2>2. TypeOK' /\ OutageNeverKept'
    BY <1>7 DEF GetUser, SendAs, NameOf, Goto, IInv, TypeOK, Stages, Names, OutageNeverKept
  <2>3. LockDiscipline' /\ LookupMeansNil'
    BY <1>7, <2>1 DEF GetUser, SendAs, Goto, IInv, TypeOK, LockDiscipline, LookupMeansNil
  <2> QED
    BY <2>2, <2>3 DEF IInv
<1>8. CASE Upgrade \/ UNCHANGED vars
  BY <1>8 DEF Upgrade, vars, IInv, TypeOK, LockDiscipline, OutageNeverKept, LookupMeansNil
<1> QED
  BY <1>1, <1>2, <1>3, <1>4, <1>5, <1>6, <1>7, <1>8 DEF Next, GetAdminInfo

\* The inductive invariant holds in every reachable state.
THEOREM AdminLoginInv == Spec => []IInv
  BY InitIInv, StepIInv, PTL DEF Spec

\* Type correctness, whatever the lookups answer.
THEOREM AdminLoginTypes == Spec => []TypeOK
  BY AdminLoginInv, PTL DEF IInv

\* At most one lookup at a time, and no way out of it that keeps the lock.
THEOREM AdminLoginLock == Spec => []LockDiscipline
  BY AdminLoginInv, PTL DEF IInv

\* An outage of the backend is never remembered as the main user's name.
THEOREM AdminLoginOutage == Spec => []OutageNeverKept
  BY AdminLoginInv, PTL DEF IInv

\* The main user is kept for good.
THEOREM AdminLoginKept == Spec => KeptForGood
<1>1. IInv /\ [Next]_vars => [user # Nil => user' = user]_vars
  BY DEF IInv, LookupMeansNil, Next, GetAdminInfo, Director, ModifyResp, Finish, Lock, UseKnown,
     GetUnreachable, GetNotFound, GetOtherStatus, KeptOnOtherStatus, GetGarbled, GetUser, Upgrade,
     vars
<1> QED
  BY AdminLoginInv, <1>1, PTL DEF Spec, KeptForGood

\* Once a user is kept every login leaves with it.
THEOREM AdminLoginFollows == Spec => OwnerFollowsKept
<1> DEFINE Follows == \A l \in Logins :
               pc'[l] = "sent" /\ pc[l] # "sent" /\ user # Nil => owner'[l] = user
<1>1. ASSUME IInv, Next, NEW l \in Logins, pc'[l] = "sent", pc[l] # "sent", user # Nil
      PROVE  owner'[l] = user
  <2>1. ASSUME NEW m \in Logins, UseKnown(m) PROVE owner'[l] = user
    BY <1>1, <2>1 DEF UseKnown, Known, SendAs, NameOf, Goto, IInv, TypeOK
  <2> QED
    BY <1>1, <2>1, AdminLoginAssumption
    DEF IInv, TypeOK, Stages, Over, LookupMeansNil, Next, GetAdminInfo, Director, ModifyResp, Finish, Lock,
        GetUnreachable, GetNotFound, GetOtherStatus, GetGarbled, GetUser, Upgrade, Goto, SendAs, Degrade
<1>2. IInv /\ [Next]_vars => [Follows]_vars
  BY <1>1
<1> QED
  BY AdminLoginInv, <1>2, PTL DEF Spec, OwnerFollowsKept

\* The lookup is done once, as far as anybody can tell (GetAdminInfo).
THEOREM AdminLoginKeptIsUsed == Spec => KeptIsUsed
  BY AdminLoginKept, AdminLoginFollows, PTL DEF KeptIsUsed
=============================================================================
