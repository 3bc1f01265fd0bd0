--------------------------- MODULE MetricsProofs ---------------------------
(***************************************************************************)
(* Proofs about the models of handlers/metrics.go: the fan-out and join of *)
(* a view, its counters and its means, for every set of rows, results and  *)
(* samples, and any number of requests, series and changes.                *)
(***************************************************************************)
EXTENDS MetricsFanout, MetricsTotals, MetricsMeans, SequenceTheorems, FiniteSetTheorems,
        WellFoundedInduction, TLAPS

-----------------------------------------------------------------------------
(* The fan-out and join.  Between the goroutines of a request and its      *)
(* reply stand the map they store in, the error of the group and what the  *)
(* request has seen of the sources; FanoutIInv ties them to one another.   *)

\* Each slot has a map of its own, with a place for every goroutine.
StoredOK == DOMAIN stored = Handlers /\ \A h \in Handlers : DOMAIN stored[h] = Legs

\* The goroutines run while the handler waits, one for each source of the view;
\* one that got an answer has stored something, any other has not; the error of
\* the group is the first one, and there is one exactly if a goroutine failed.
GroupFits(h) ==
    /\ stage[h] \in {"idle", "bad_request"} => leg[h] = AllOff /\ err[h] = None
    /\ stage[h] \in {"wait", "join", "ok"} => \A l \in LegsOf(kind[h]) : leg[h][l] # "off"
    /\ \A l \in Legs : leg[h][l] = "running" => stage[h] = "wait"
    /\ \A l \in Legs : stored[h][l] = None <=> leg[h][l] \in {"off", "running", "failed"}
    /\ leg[h]["registry"] # "emptied"
    /\ err[h] = None <=> \A l \in Legs : leg[h][l] # "failed"
    /\ stage[h] \in {"join", "ok"} => err[h] = None
    /\ stage[h] = "exception" => err[h] # None
    /\ stage[h] # "crashed"

\* A set of keys that a goroutine read was so, key by key, at some moment.
SetWasSo(h, set) ==
    \A k \in Keys : /\ k \in set => TRUE \in seen[h][k].measured
                    /\ k \notin set => FALSE \in seen[h][k].measured

StateWasSo(h, reg) == \A k \in Keys : reg[k] \in seen[h][k].health

\* What a goroutine stored was so at some moment of the request; while the
\* handler waits, the present is one.
ReadsTrue(h) ==
    /\ leg[h]["registry"] = "stored" => StateWasSo(h, stored[h]["registry"])
    /\ \A l \in {"timeout", "total"} :
          /\ leg[h][l] = "stored" => SetWasSo(h, stored[h][l])
          /\ leg[h][l] = "emptied" => stored[h][l] = {}
    /\ stage[h] = "wait" => StateWasSo(h, registry) /\ SetWasSo(h, series)

\* The rows of a reply are those of the join, and no other request has any.
RowsJoined(h) == rows[h] = IF stage[h] = "ok" THEN RowsOf(kind[h], stored[h]) ELSE {}

Request(h) == GroupFits(h) /\ ReadsTrue(h) /\ RowsJoined(h)

FanoutIInv == FanoutTypeOK /\ StoredOK /\ \A h \in Handlers : Request(h)

\* A request that is not touched by a step fits as before.
LEMMA OtherRequest ==
    ASSUME FanoutIInv, NEW g \in Handlers,
           registry' = registry, series' = series,
           stage'[g] = stage[g], kind'[g] = kind[g], leg'[g] = leg[g], stored'[g] = stored[g],
           err'[g] = err[g], rows'[g] = rows[g], seen'[g] = seen[g]
    PROVE  Request(g)'
<1>1. Request(g)
  BY DEF FanoutIInv
<1>2. GroupFits(g)'
  BY <1>1 DEF Request, GroupFits
<1>3. ReadsTrue(g)'
  BY <1>1 DEF Request, ReadsTrue, StateWasSo, SetWasSo
<1>4. RowsJoined(g)'
  BY <1>1 DEF Request, RowsJoined
<1> QED
  BY <1>2, <1>3, <1>4 DEF Request

\* What a request that is under way gets to see of the series.
LEMMA MeasuredIn ==
    ASSUME NEW k \in Keys
    PROVE  /\ k \in series => TRUE \in {Measured(k)}
           /\ k \notin series => FALSE \in {Measured(k)}
<1>1. CASE k \in series
  <2>1. Measured(k) = TRUE
    BY <1>1 DEF Measured
  <2> QED
    BY <1>1, <2>1
<1>2. CASE k \notin series
  <2>1. Measured(k) = FALSE
    BY <1>2 DEF Measured
  <2> QED
    BY <1>2, <2>1
<1> QED
  BY <1>1, <1>2

\* The moment a request begins is the first that it has seen.
LEMMA BeginStep ==
    ASSUME FanoutIInv, NEW h \in Handlers, NEW v \in Kinds, stage[h] = "idle", Begin(h, v),
           UNCHANGED <<registry, series, stored, err, rows, changes>>
    PROVE  FanoutIInv'
<1>0. FanoutTypeOK /\ StoredOK /\ Request(h)
  BY DEF FanoutIInv
<1>1. \A k \in Keys : /\ {registry[k]} \in SUBSET Health
                      /\ {Measured(k)} \in SUBSET BOOLEAN
  BY <1>0 DEF FanoutTypeOK, Measured
<1>2. FanoutTypeOK' /\ StoredOK'
  <2>1. seen' \in [Handlers -> [Keys -> [health : SUBSET Health, measured : SUBSET BOOLEAN]]]
    BY <1>0, <1>1 DEF FanoutTypeOK, Begin
  <2>2. leg' \in [Handlers -> [Legs -> {"off", "running", "stored", "emptied", "failed"}]]
    BY <1>0 DEF FanoutTypeOK, Begin
  <2> QED
    BY <1>0, <2>1, <2>2 DEF FanoutTypeOK, StoredOK, Begin
<1>3. GroupFits(h)'
  BY <1>0 DEF FanoutTypeOK, Request, GroupFits, Begin, AllOff, LegsOf, Legs
<1>4. ReadsTrue(h)'
  <2>1. \A k \in Keys : seen'[h][k].health = {registry[k]} /\ seen'[h][k].measured = {Measured(k)}
    BY <1>0 DEF FanoutTypeOK, Begin
  <2>2. \A k \in Keys : /\ k \in series => TRUE \in {Measured(k)}
                        /\ k \notin series => FALSE \in {Measured(k)}
    BY MeasuredIn
  <2>3. \A l \in Legs : leg'[h][l] \in {"off", "running"}
    BY <1>0 DEF FanoutTypeOK, Begin
  <2> QED
    BY <2>1, <2>2, <2>3 DEF ReadsTrue, StateWasSo, SetWasSo, Legs
<1>5. RowsJoined(h)'
  BY <1>0 DEF FanoutTypeOK, Request, RowsJoined, Begin
<1>6. ASSUME NEW g \in Handlers, g # h PROVE Request(g)'
  BY <1>0, <1>6, OtherRequest DEF FanoutTypeOK, Begin
<1> QED
  BY <1>2, <1>3, <1>4, <1>5, <1>6 DEF FanoutIInv, Request

\* A view that is not of services needs one.
LEMMA RefuseStep ==
    ASSUME FanoutIInv, NEW h \in Handlers, NEW v \in Kinds, stage[h] = "idle",
           stage' = [stage EXCEPT ![h] = "bad_request"], kind' = [kind EXCEPT ![h] = v],
           UNCHANGED <<registry, series, leg, stored, err, rows, seen, changes>>
    PROVE  FanoutIInv'
<1>0. FanoutTypeOK /\ StoredOK /\ Request(h)
  BY DEF FanoutIInv
<1>1. FanoutTypeOK' /\ StoredOK'
  BY <1>0 DEF FanoutTypeOK, StoredOK, Answers
<1>2. Request(h)'
  BY <1>0 DEF FanoutTypeOK, Request, GroupFits, ReadsTrue, StateWasSo, SetWasSo, RowsJoined, AllOff, Legs
<1>3. ASSUME NEW g \in Handlers, g # h PROVE Request(g)'
  BY <1>0, <1>3, OtherRequest DEF FanoutTypeOK
<1> QED
  BY <1>1, <1>2, <1>3 DEF FanoutIInv

\* What a goroutine can read is no None, and a witness of the present.
LEMMA ReadInv ==
    ASSUME FanoutIInv, NEW h \in Handlers, stage[h] = "wait", NEW l \in Legs
    PROVE  /\ Read(l) # None
           /\ l = "registry" => Read(l) \in [Keys -> Health] /\ StateWasSo(h, Read(l))
           /\ l # "registry" => Read(l) \in SUBSET Keys /\ SetWasSo(h, Read(l))
<1>1. registry \in [Keys -> Health] /\ series \in SUBSET Keys
  BY DEF FanoutIInv, FanoutTypeOK
<1>2. StateWasSo(h, registry) /\ SetWasSo(h, series)
  BY DEF FanoutIInv, Request, ReadsTrue
<1> QED
  BY <1>1, <1>2, FanoutAssumption DEF Read

\* A goroutine that stores what it read, or nothing of what it should have read.
LEMMA LegStoresStep ==
    ASSUME FanoutIInv, NEW h \in Handlers, NEW l \in Legs, LegStores(h, l) \/ LegEmptied(h, l)
    PROVE  FanoutIInv'
<1>0. FanoutTypeOK /\ StoredOK /\ Request(h) /\ leg[h][l] = "running" /\ stage[h] = "wait"
  BY DEF FanoutIInv, Request, GroupFits, LegStores, LegEmptied
<1> DEFINE got == IF LegStores(h, l) THEN Read(l) ELSE {}
           end == IF LegStores(h, l) THEN "stored" ELSE "emptied"
<1>1. /\ leg' = [leg EXCEPT ![h][l] = end]
      /\ stored' = [stored EXCEPT ![h][l] = got]
      /\ UNCHANGED <<registry, series, stage, kind, err, rows, seen, changes>>
      /\ end \in {"stored", "emptied"}
      /\ l = "registry" => end = "stored"
  BY DEF LegStores, LegEmptied
<1>2. /\ got # None
      /\ l = "registry" => got \in [Keys -> Health] /\ StateWasSo(h, got)
      /\ l # "registry" => got \in SUBSET Keys
      /\ l # "registry" /\ end = "stored" => SetWasSo(h, got)
      /\ end = "emptied" => got = {}
  BY <1>0, <1>1, ReadInv, FanoutAssumption
<1> HIDE DEF got, end
<1>3. /\ leg'[h][l] = end /\ \A m \in Legs : m # l => leg'[h][m] = leg[h][m]
      /\ \A g \in Handlers : g # h => leg'[g] = leg[g]
      /\ leg' \in [Handlers -> [Legs -> {"off", "running", "stored", "emptied", "failed"}]]
  BY <1>0, <1>1 DEF FanoutTypeOK
<1>4. /\ stored'[h][l] = got /\ \A m \in Legs : m # l => stored'[h][m] = stored[h][m]
      /\ \A g \in Handlers : g # h => stored'[g] = stored[g]
      /\ DOMAIN stored' = Handlers /\ \A g \in Handlers : DOMAIN stored'[g] = Legs
  BY <1>0, <1>1 DEF StoredOK
<1>5. FanoutTypeOK' /\ StoredOK'
  <2>1. \A g \in Handlers :
          /\ stored'[g]["registry"] \in [Keys -> Health] \cup {None}
          /\ stored'[g]["timeout"] \in (SUBSET Keys) \cup {None}
          /\ stored'[g]["total"] \in (SUBSET Keys) \cup {None}
    BY <1>0, <1>2, <1>4 DEF FanoutTypeOK, Legs
  <2> QED
    BY <1>0, <1>1, <1>3, <1>4, <2>1 DEF FanoutTypeOK, StoredOK
<1>6. GroupFits(h)'
  BY <1>0, <1>1, <1>2, <1>3, <1>4 DEF Request, GroupFits, Legs, LegsOf
<1>7. ReadsTrue(h)'
  <2>1. ReadsTrue(h)
    BY <1>0 DEF Request
  <2>2. /\ leg'[h]["registry"] = "stored" => StateWasSo(h, stored'[h]["registry"])
        /\ \A m \in {"timeout", "total"} :
              /\ leg'[h][m] = "stored" => SetWasSo(h, stored'[h][m])
              /\ leg'[h][m] = "emptied" => stored'[h][m] = {}
    BY <2>1, <1>1, <1>2, <1>3, <1>4 DEF ReadsTrue, Legs
  <2> QED
    BY <1>1, <2>1, <2>2 DEF ReadsTrue, StateWasSo, SetWasSo
<1>8. RowsJoined(h)'
  BY <1>0, <1>1 DEF Request, RowsJoined
<1>9. ASSUME NEW g \in Handlers, g # h PROVE Request(g)'
  BY <1>1, <1>3, <1>4, <1>9, OtherRequest
<1> QED
  BY <1>5, <1>6, <1>7, <1>8, <1>9 DEF FanoutIInv, Request

\* The first goroutine that fails gives the group its error.
LEMMA LegFailsStep ==
    ASSUME FanoutIInv, NEW h \in Handlers, NEW l \in Legs, LegFails(h, l)
    PROVE  FanoutIInv'
<1>0. FanoutTypeOK /\ StoredOK /\ Request(h) /\ leg[h][l] = "running" /\ stage[h] = "wait"
  BY DEF FanoutIInv, Request, GroupFits, LegFails
<1>1. /\ leg'[h][l] = "failed" /\ \A m \in Legs : m # l => leg'[h][m] = leg[h][m]
      /\ \A g \in Handlers : g # h => leg'[g] = leg[g]
      /\ leg' \in [Handlers -> [Legs -> {"off", "running", "stored", "emptied", "failed"}]]
  BY <1>0 DEF FanoutTypeOK, LegFails
<1>2. /\ err' \in [Handlers -> Legs \cup {None}]
      /\ err'[h] = (IF err[h] = None THEN l ELSE err[h])
      /\ \A g \in Handlers : g # h => err'[g] = err[g]
  BY <1>0 DEF FanoutTypeOK, LegFails, GroupError
<1>3. UNCHANGED <<registry, series, stage, kind, stored, rows, seen, changes>>
  BY DEF LegFails
<1>4. FanoutTypeOK' /\ StoredOK'
  BY <1>0, <1>1, <1>2, <1>3 DEF FanoutTypeOK, StoredOK
<1>5. GroupFits(h)'
  BY <1>0, <1>1, <1>2, <1>3, FanoutAssumption DEF Request, GroupFits, LegsOf, Legs
<1>6. ReadsTrue(h)'
  BY <1>0, <1>1, <1>3 DEF Request, ReadsTrue, StateWasSo, SetWasSo, Legs
<1>7. RowsJoined(h)'
  BY <1>0, <1>3 DEF Request, RowsJoined
<1>8. ASSUME NEW g \in Handlers, g # h PROVE Request(g)'
  BY <1>1, <1>2, <1>3, <1>8, OtherRequest
<1> QED
  BY <1>4, <1>5, <1>6, <1>7, <1>8 DEF FanoutIInv, Request

\* The group is done: every goroutine of the view has stored or failed.
LEMMA WaitStep ==
    ASSUME FanoutIInv, NEW h \in Handlers, Wait(h)
    PROVE  FanoutIInv'
<1>0. FanoutTypeOK /\ StoredOK /\ Request(h)
  BY DEF FanoutIInv
<1>1. /\ stage[h] = "wait" /\ GroupDone(h)
      /\ stage'[h] = (IF err[h] = None THEN "join" ELSE "exception")
      /\ \A g \in Handlers : g # h => stage'[g] = stage[g]
      /\ UNCHANGED <<registry, series, kind, leg, stored, err, rows, seen, changes>>
  BY <1>0 DEF Wait, FanoutTypeOK
<1>2. FanoutTypeOK' /\ StoredOK'
  BY <1>0 DEF FanoutTypeOK, StoredOK, Wait, Answers
<1>3. GroupFits(h)'
  BY <1>0, <1>1 DEF Request, GroupFits, GroupDone
<1>4. ReadsTrue(h)' /\ RowsJoined(h)'
  BY <1>0, <1>1 DEF Request, ReadsTrue, StateWasSo, SetWasSo, RowsJoined
<1>5. ASSUME NEW g \in Handlers, g # h PROVE Request(g)'
  BY <1>1, <1>5, OtherRequest
<1> QED
  BY <1>2, <1>3, <1>4, <1>5 DEF FanoutIInv, Request

\* When the group is done without an error, every goroutine of the view has left
\* its result in the map.
LEMMA AllStored ==
    ASSUME FanoutIInv, NEW h \in Handlers, stage[h] \in {"join", "ok"}, NEW l \in LegsOf(kind[h])
    PROVE  /\ leg[h][l] \in {"stored", "emptied"}
           /\ stored[h][l] # None
           /\ l = "registry" => stored[h][l] \in [Keys -> Health]
           /\ l # "registry" => stored[h][l] \in SUBSET Keys
<1>1. l \in Legs
  BY DEF LegsOf, Legs
<1>2. GroupFits(h) /\ FanoutTypeOK
  BY DEF FanoutIInv, Request
<1>3. leg[h][l] \in {"off", "running", "stored", "emptied", "failed"}
  BY <1>1, <1>2 DEF FanoutTypeOK
<1>4. leg[h][l] \notin {"off", "running", "failed"}
  BY <1>1, <1>2 DEF GroupFits
<1>5. stored[h][l] # None
  BY <1>1, <1>2, <1>3, <1>4 DEF GroupFits
<1> QED
  BY <1>1, <1>2, <1>3, <1>4, <1>5 DEF FanoutTypeOK, Legs

\* The rows that the join makes.
LEMMA RowsOfInv ==
    ASSUME FanoutIInv, NEW h \in Handlers, stage[h] \in {"join", "ok"}
    PROVE  /\ RowsOf(kind[h], stored[h]) \in SUBSET (Keys \X Statuses)
           /\ \A row \in RowsOf(kind[h], stored[h]) :
                 /\ row[1] \in InBoth(stored[h])
                 /\ kind[h] = "services" => stored[h]["registry"][row[1]] # "absent"
                 /\ kind[h] = "instances" => row[2] = StatusOf(stored[h]["registry"], row[1])
           /\ \A k \in InBoth(stored[h]) :
                 \/ kind[h] = "services" /\ stored[h]["registry"][k] = "absent"
                 \/ \E status \in Statuses : <<k, status>> \in RowsOf(kind[h], stored[h])
<1> DEFINE got == stored[h]
<1>1. InBoth(got) \in SUBSET Keys
  <2>1. "total" \in LegsOf(kind[h])
    BY DEF LegsOf, Legs
  <2>2. got["total"] \in SUBSET Keys
    BY <2>1, AllStored
  <2> QED
    BY <2>2 DEF InBoth
<1>2. kind[h] \in Kinds
  BY DEF FanoutIInv, FanoutTypeOK
<1>3. CASE kind[h] = "services"
  <2>1. RowsOf(kind[h], got) = ServiceRows(got)
    BY <1>3 DEF RowsOf
  <2> QED
    BY <1>1, <1>3, <2>1 DEF ServiceRows, Statuses
<1>4. CASE kind[h] = "instances"
  <2>1. RowsOf(kind[h], got) = InstanceRows(got)
    BY <1>4 DEF RowsOf
  <2>2. got["registry"] \in [Keys -> Health]
    BY <1>4, AllStored DEF LegsOf, Legs
  <2>3. \A k \in InBoth(got) : StatusOf(got["registry"], k) \in Statuses
    BY <1>1, <2>2 DEF StatusOf, Health, Statuses
  <2> QED
    BY <1>1, <1>4, <2>1, <2>3 DEF InstanceRows
<1>5. CASE kind[h] = "interfaces"
  <2>1. RowsOf(kind[h], got) = InterfaceRows(got)
    BY <1>5 DEF RowsOf
  <2> QED
    BY <1>1, <1>5, <2>1 DEF InterfaceRows, Statuses
<1>6. CASE kind[h] = "callers"
  <2>1. RowsOf(kind[h], got) = CallerRows(got)
    BY <1>6 DEF RowsOf
  <2> QED
    BY <1>1, <1>6, <2>1 DEF CallerRows, Statuses
<1> QED
  BY <1>2, <1>3, <1>4, <1>5, <1>6 DEF Kinds

\* The join finds every result, so it makes the rows.
LEMMA JoinStep ==
    ASSUME FanoutIInv, NEW h \in Handlers, Join(h)
    PROVE  FanoutIInv'
<1>0. FanoutTypeOK /\ StoredOK /\ Request(h) /\ stage[h] = "join"
  BY DEF FanoutIInv, Join
<1>1. \A l \in LegsOf(kind[h]) : stored[h][l] # None
  BY <1>0, AllStored
<1>2. /\ stage' = [stage EXCEPT ![h] = "ok"]
      /\ rows' = [rows EXCEPT ![h] = RowsOf(kind[h], stored[h])]
      /\ UNCHANGED <<registry, series, kind, leg, stored, err, seen, changes>>
  BY <1>1 DEF Join
<1>3. FanoutTypeOK' /\ StoredOK'
  BY <1>0, <1>2, RowsOfInv DEF FanoutTypeOK, StoredOK, Answers
<1>4. GroupFits(h)'
  BY <1>0, <1>2 DEF FanoutTypeOK, Request, GroupFits
<1>5. ReadsTrue(h)'
  BY <1>0, <1>2 DEF FanoutTypeOK, Request, ReadsTrue, StateWasSo, SetWasSo
<1>6. RowsJoined(h)'
  BY <1>0, <1>2 DEF FanoutTypeOK, RowsJoined
<1>7. ASSUME NEW g \in Handlers, g # h PROVE Request(g)'
  BY <1>0, <1>2, <1>7, OtherRequest DEF FanoutTypeOK
<1> QED
  BY <1>3, <1>4, <1>5, <1>6, <1>7 DEF FanoutIInv, Request

\* The slot is as it was at first.
LEMMA FinishStep ==
    ASSUME FanoutIInv, NEW h \in Handlers, Finish(h)
    PROVE  FanoutIInv'
<1>0. FanoutTypeOK /\ StoredOK
  BY DEF FanoutIInv
<1>1. FanoutTypeOK' /\ StoredOK'
  BY <1>0 DEF Finish, FanoutTypeOK, StoredOK, AllOff, Empty, Unseen, Legs, Kinds
<1>2. /\ stage'[h] = "idle" /\ leg'[h] = AllOff /\ stored'[h] = Empty /\ err'[h] = None
      /\ rows'[h] = {}
  BY <1>0 DEF Finish, FanoutTypeOK, StoredOK
<1>3. Request(h)'
  BY <1>2 DEF Request, GroupFits, ReadsTrue, RowsJoined, AllOff, Empty, Legs
<1>4. ASSUME NEW g \in Handlers, g # h PROVE Request(g)'
  BY <1>0, <1>4, OtherRequest DEF Finish, FanoutTypeOK, StoredOK
<1> QED
  BY <1>1, <1>3, <1>4 DEF FanoutIInv

\* A change of a source is seen by every request that waits, and by no other.
LEMMA SourceStep ==
    ASSUME FanoutIInv, registry' \in [Keys -> Health], series' \in SUBSET Keys, Change, Witness
    PROVE  FanoutIInv'
<1>0. FanoutTypeOK /\ StoredOK
  BY DEF FanoutIInv
<1>1. UNCHANGED <<stage, kind, leg, stored, err, rows>> /\ changes' \in 0 .. MaxChanges
  BY <1>0, FanoutAssumption DEF Change, FanoutTypeOK
<1> DEFINE now(k) == {Measured(k)'}
<1>2. ASSUME NEW h \in Handlers, NEW k \in Keys, stage[h] = "wait"
      PROVE  /\ seen'[h][k].health = seen[h][k].health \cup {registry'[k]}
             /\ seen'[h][k].measured = seen[h][k].measured \cup now(k)
             /\ seen'[h][k] = [health   |-> seen'[h][k].health,
                               measured |-> seen'[h][k].measured]
  BY <1>2 DEF Witness
<1>same. ASSUME NEW h \in Handlers, NEW k \in Keys, stage[h] # "wait"
      PROVE  seen'[h][k] = seen[h][k]
  BY <1>same DEF Witness
<1>3. ASSUME NEW k \in Keys
      PROVE  /\ {registry'[k]} \in SUBSET Health /\ now(k) \in SUBSET BOOLEAN
             /\ k \in series' => TRUE \in now(k)
             /\ k \notin series' => FALSE \in now(k)
  <2>1. {registry'[k]} \in SUBSET Health /\ now(k) \in SUBSET BOOLEAN
    BY DEF Measured
  <2>2. CASE k \in series'
    <3>1. Measured(k)' = TRUE
      BY <2>2 DEF Measured
    <3> QED
      BY <2>1, <2>2, <3>1
  <2>3. CASE k \notin series'
    <3>1. Measured(k)' = FALSE
      BY <2>3 DEF Measured
    <3> QED
      BY <2>1, <2>3, <3>1
  <2> QED
    BY <2>2, <2>3
<1> HIDE DEF now
<1>4. seen' \in [Handlers -> [Keys -> [health : SUBSET Health, measured : SUBSET BOOLEAN]]]
  <2>1. \A h \in Handlers, k \in Keys :
           seen'[h][k] \in [health : SUBSET Health, measured : SUBSET BOOLEAN]
    <3> SUFFICES ASSUME NEW h \in Handlers, NEW k \in Keys
                 PROVE  seen'[h][k] \in [health : SUBSET Health, measured : SUBSET BOOLEAN]
      OBVIOUS
    <3>1. seen[h][k] \in [health : SUBSET Health, measured : SUBSET BOOLEAN]
      BY <1>0 DEF FanoutTypeOK
    <3>2. CASE stage[h] # "wait"
      BY <1>same, <3>1, <3>2
    <3>3. CASE stage[h] = "wait"
      <4>0. seen[h][k].health \in SUBSET Health /\ seen[h][k].measured \in SUBSET BOOLEAN
        BY <3>1
      <4>1. seen'[h][k].health \in SUBSET Health
        <5>1. seen'[h][k].health = seen[h][k].health \cup {registry'[k]}
          BY <1>2, <3>3
        <5>2. {registry'[k]} \in SUBSET Health
          BY <1>3
        <5> QED
          BY <4>0, <5>1, <5>2
      <4>2. seen'[h][k].measured \in SUBSET BOOLEAN
        <5>1. seen'[h][k].measured = seen[h][k].measured \cup now(k)
          BY <1>2, <3>3
        <5>2. now(k) \in SUBSET BOOLEAN
          BY <1>3
        <5> QED
          BY <4>0, <5>1, <5>2
      <4>3. seen'[h][k] = [health |-> seen'[h][k].health, measured |-> seen'[h][k].measured]
        BY <1>2, <3>3
      <4> QED
        BY <4>1, <4>2, <4>3
    <3> QED
      BY <3>2, <3>3
  <2> QED
    BY <2>1 DEF Witness
<1>5. FanoutTypeOK' /\ StoredOK'
  BY <1>0, <1>1, <1>4 DEF FanoutTypeOK, StoredOK
<1>6. ASSUME NEW h \in Handlers PROVE Request(h)'
  <2>1. Request(h)
    BY DEF FanoutIInv
  <2>2. GroupFits(h)'
    BY <1>1, <2>1 DEF Request, GroupFits
  <2>3. RowsJoined(h)'
    BY <1>1, <2>1 DEF Request, RowsJoined
  <2>4. ReadsTrue(h)'
    <3>1. ASSUME NEW k \in Keys
          PROVE  /\ seen[h][k].health \subseteq seen'[h][k].health
                 /\ seen[h][k].measured \subseteq seen'[h][k].measured
      <4>1. CASE stage[h] # "wait"
        BY <1>same, <4>1
      <4>2. CASE stage[h] = "wait"
        <5>1. seen'[h][k].health = seen[h][k].health \cup {registry'[k]}
          BY <1>2, <4>2
        <5>2. seen'[h][k].measured = seen[h][k].measured \cup now(k)
          BY <1>2, <4>2
        <5> QED
          BY <5>1, <5>2
      <4> QED
        BY <4>1, <4>2
    <3>2. ASSUME stage[h] = "wait", NEW k \in Keys
          PROVE  /\ registry'[k] \in seen'[h][k].health
                 /\ now(k) \subseteq seen'[h][k].measured
      BY <1>2, <3>2
    <3>3. stage'[h] = "wait" => StateWasSo(h, registry)' /\ SetWasSo(h, series)'
      BY <1>1, <1>3, <3>2 DEF StateWasSo, SetWasSo
    <3>4. ReadsTrue(h)
      BY <2>1 DEF Request
    <3> QED
      BY <1>1, <3>1, <3>3, <3>4 DEF ReadsTrue, StateWasSo, SetWasSo
  <2> QED
    BY <2>2, <2>3, <2>4 DEF Request
<1> QED
  BY <1>5, <1>6 DEF FanoutIInv

\* No request is under way at first.
LEMMA FanoutInitIInv == FanoutInit => FanoutIInv
<1> SUFFICES ASSUME FanoutInit PROVE FanoutIInv
  OBVIOUS
<1>1. FanoutTypeOK /\ StoredOK
  BY FanoutAssumption
  DEF FanoutInit, FanoutTypeOK, StoredOK, AllOff, Empty, Unseen, Legs, Kinds, Answers
<1>2. ASSUME NEW h \in Handlers PROVE Request(h)
  BY DEF FanoutInit, Request, GroupFits, ReadsTrue, RowsJoined, AllOff, Empty, Legs
<1> QED
  BY <1>1, <1>2 DEF FanoutIInv

\* Every step of a handler, a goroutine or a source keeps the inductive invariant.
LEMMA FanoutNextIInv == FanoutIInv /\ [FanoutNext]_fanoutVars => FanoutIInv'
<1> SUFFICES ASSUME FanoutIInv, [FanoutNext]_fanoutVars PROVE FanoutIInv'
  OBVIOUS
<1>1. ASSUME NEW h \in Handlers, DescribeServices(h) PROVE FanoutIInv'
  <2>1. "services" \in Kinds
    BY DEF Kinds
  <2> QED
    BY <1>1, <2>1, BeginStep DEF DescribeServices
<1>2. ASSUME NEW h \in Handlers, NEW v \in Kinds, DescribeOf(h, v) PROVE FanoutIInv'
  <2>1. CASE Begin(h, v)
    BY <1>2, <2>1, BeginStep DEF DescribeOf
  <2>2. CASE ~Begin(h, v)
    BY <1>2, <2>2, RefuseStep DEF DescribeOf
  <2> QED
    BY <2>1, <2>2
<1>3. ASSUME NEW h \in Handlers, Handler(h) PROVE FanoutIInv'
  BY <1>3, WaitStep, JoinStep, FinishStep DEF Handler
<1>4. ASSUME NEW h \in Handlers, NEW l \in Legs, Goroutine(h, l) PROVE FanoutIInv'
  BY <1>4, LegStoresStep, LegFailsStep DEF Goroutine
<1>5. ASSUME NEW k \in Keys, RegistryChanges(k) \/ SeriesChanges(k) PROVE FanoutIInv'
  <2>1. registry' \in [Keys -> Health] /\ series' \in SUBSET Keys
    BY <1>5 DEF RegistryChanges, SeriesChanges, FanoutIInv, FanoutTypeOK
  <2> QED
    BY <1>5, <2>1, SourceStep DEF RegistryChanges, SeriesChanges
<1>6. CASE UNCHANGED fanoutVars
  <2>1. ASSUME NEW h \in Handlers PROVE Request(h)'
    BY <1>6, OtherRequest DEF fanoutVars
  <2>2. FanoutTypeOK' /\ StoredOK'
    BY <1>6 DEF fanoutVars, FanoutIInv, FanoutTypeOK, StoredOK
  <2> QED
    BY <2>1, <2>2 DEF FanoutIInv
<1> QED
  BY <1>1, <1>2, <1>3, <1>4, <1>5, <1>6 DEF FanoutNext

\* The invariant that the theorems about the views rest on.
THEOREM FanoutInv == FanoutSpec => []FanoutIInv
<1> QED
  BY FanoutInitIInv, FanoutNextIInv, PTL DEF FanoutSpec

\* Type correctness of the views, for any number of requests, rows and changes.
THEOREM FanoutTypes == FanoutSpec => []FanoutTypeOK
<1>1. FanoutIInv => FanoutTypeOK
  BY DEF FanoutIInv
<1> QED
  BY <1>1, FanoutInv, PTL

\* No type assertion of a join fails, and no goroutine outlives its request
\* (errg.Wait).
THEOREM FanoutJoinWaits == FanoutSpec => []JoinWaitsForAll
<1>1. FanoutIInv => JoinWaitsForAll
  BY DEF FanoutIInv, Request, GroupFits, JoinWaitsForAll, JoinFindsEverything, NoStrayGoroutine
<1> QED
  BY <1>1, FanoutInv, PTL

\* A goroutine of a reply that was not answered with an error document has left
\* what was so at some moment of the request.
LEMMA StoredWasSo ==
    ASSUME FanoutIInv, NEW h \in Handlers, stage[h] = "ok"
    PROVE  /\ \A l \in {"timeout", "total"} :
                 /\ \A k \in Keys : k \in stored[h][l] => TRUE \in seen[h][k].measured
                 /\ leg[h][l] # "emptied" =>
                       \A k \in Keys : k \notin stored[h][l] => FALSE \in seen[h][k].measured
           /\ kind[h] \in {"services", "instances"} =>
                 \A k \in Keys : stored[h]["registry"][k] \in seen[h][k].health
<1>1. ReadsTrue(h) /\ GroupFits(h)
  BY DEF FanoutIInv, Request
<1>2. \A l \in {"timeout", "total"} : leg[h][l] \in {"stored", "emptied"}
  BY AllStored DEF LegsOf, Legs
<1>3. kind[h] \in {"services", "instances"} => leg[h]["registry"] = "stored"
  <2>1. kind[h] \in {"services", "instances"} => "registry" \in LegsOf(kind[h])
    BY DEF LegsOf, Legs
  <2>2. leg[h]["registry"] # "emptied"
    BY <1>1 DEF GroupFits
  <2> QED
    BY <2>1, <2>2, AllStored
<1> QED
  BY <1>1, <1>2, <1>3 DEF ReadsTrue, SetWasSo, StateWasSo

\* The rows of a reply, by the join.
LEMMA RowsAre ==
    ASSUME FanoutIInv, NEW h \in Handlers
    PROVE  /\ stage[h] # "ok" => rows[h] = {}
           /\ stage[h] = "ok" => rows[h] = RowsOf(kind[h], stored[h])
  BY DEF FanoutIInv, Request, RowsJoined

\* Key and status of every row that is shown were so at some moment of the request.
THEOREM FanoutRowsWereTrue == FanoutSpec => []RowsWereTrue
<1>1. ASSUME FanoutIInv, NEW h \in Handlers, NEW row \in rows[h]
      PROVE  /\ TRUE \in seen[h][row[1]].measured
             /\ kind[h] = "services" => seen[h][row[1]].health # {"absent"}
             /\ kind[h] = "instances" =>
                   (IF row[2] = "offline" THEN "absent" ELSE row[2]) \in seen[h][row[1]].health
  <2>1. stage[h] = "ok" /\ row \in RowsOf(kind[h], stored[h])
    BY <1>1, RowsAre
  <2>2. row \in Keys \X Statuses /\ row[1] \in InBoth(stored[h])
    BY <1>1, <2>1, RowsOfInv
  <2>3. row[1] \in Keys
    BY <2>2
  <2>4. TRUE \in seen[h][row[1]].measured
    BY <1>1, <2>1, <2>2, <2>3, StoredWasSo DEF InBoth
  <2>5. kind[h] \in {"services", "instances"} =>
           stored[h]["registry"][row[1]] \in seen[h][row[1]].health
    BY <1>1, <2>1, <2>3, StoredWasSo
  <2>6. kind[h] = "services" => stored[h]["registry"][row[1]] # "absent"
    BY <1>1, <2>1, RowsOfInv
  <2>7. kind[h] = "instances" =>
           (IF row[2] = "offline" THEN "absent" ELSE row[2]) = stored[h]["registry"][row[1]]
    <3>1. kind[h] = "instances" => stored[h]["registry"] \in [Keys -> Health]
      BY <1>1, <2>1, AllStored DEF LegsOf, Legs
    <3>2. kind[h] = "instances" => row[2] = StatusOf(stored[h]["registry"], row[1])
      BY <1>1, <2>1, RowsOfInv
    <3>3. kind[h] = "instances" => stored[h]["registry"][row[1]] # "offline"
      BY <2>3, <3>1 DEF Health
    <3> QED
      BY <3>2, <3>3 DEF StatusOf
  <2> QED
    BY <2>4, <2>5, <2>6, <2>7
<1>2. FanoutIInv => RowsWereTrue
  BY <1>1 DEF RowsWereTrue, RowsExisted, StatusWasTrue
<1> QED
  BY <1>2, FanoutInv, PTL

\* What was measured and registered all through a request is in its reply.
THEOREM FanoutQuietIsComplete == FanoutSpec => []QuietIsComplete
<1>1. ASSUME FanoutIInv, NEW h \in Handlers, stage[h] = "ok",
             \A l \in Legs : leg[h][l] # "emptied",
             NEW k \in Keys, seen[h][k].measured = {TRUE}, "absent" \notin seen[h][k].health
      PROVE  \E status \in Statuses : <<k, status>> \in rows[h]
  <2>1. \A l \in {"timeout", "total"} : k \in stored[h][l]
    <3> SUFFICES ASSUME NEW l \in {"timeout", "total"}, k \notin stored[h][l]
                 PROVE  FALSE
      OBVIOUS
    <3>1. leg[h][l] # "emptied"
      BY <1>1 DEF Legs
    <3>2. FALSE \in seen[h][k].measured
      BY <1>1, <3>1, StoredWasSo
    <3> QED
      BY <1>1, <3>2
  <2>2. k \in InBoth(stored[h])
    BY <2>1 DEF InBoth
  <2>3. kind[h] = "services" => stored[h]["registry"][k] # "absent"
    BY <1>1, StoredWasSo
  <2>4. \E status \in Statuses : <<k, status>> \in RowsOf(kind[h], stored[h])
    BY <1>1, <2>2, <2>3, RowsOfInv
  <2> QED
    BY <1>1, <2>4, RowsAre
<1>2. FanoutIInv => QuietIsComplete
  BY <1>1 DEF QuietIsComplete
<1> QED
  BY <1>2, FanoutInv, PTL

-----------------------------------------------------------------------------
(* Sums over finite sets.  The counters and means are sums over sets of    *)
(* series and samples.  SumFunctionOnSet of the community modules chooses  *)
(* the elements one by one; these lemmas say that what it chooses does not *)
(* matter.  Each is proved by looking at a smallest set that is wrong.     *)

Chosen(S) == CHOOSE x \in S : TRUE

\* One step of the recursion, and the functions on the subsets of S that obey it.
SumStep(f, g, S)  == IF S = {} THEN 0 ELSE f[Chosen(S)] + g[S \ {Chosen(S)}]
IsSumOn(g, f, S) == g = [T \in SUBSET S |-> SumStep(f, g, T)]

\* Finite sets have a smallest among them, as no set shrinks forever.
LEMMA SmallestSet ==
    ASSUME NEW C, C # {}, \A S \in C : IsFiniteSet(S)
    PROVE  \E S \in C : \A T \in C : ~(T \subseteq S /\ T # S)
<1> DEFINE U == UNION C
           R == StrictSubsetOrdering(U)
<1>1. IsWellFoundedOn(R, FiniteSubsetsOf(U))
  BY FS_StrictSubsetOrderingWellFounded
<1>2. C \subseteq FiniteSubsetsOf(U)
  BY DEF FiniteSubsetsOf
<1>3. PICK S \in C : \A T \in C : ~(<<T, S>> \in R)
  <2> HIDE DEF U, R
  <2> QED
    BY <1>1, <1>2, WFMin
<1>4. ASSUME NEW T \in C, T \subseteq S, T # S PROVE FALSE
  <2>1. <<T, S>> \in R
    BY <1>4 DEF StrictSubsetOrdering
  <2> QED
    BY <1>3, <2>1
<1> QED
  BY <1>3, <1>4

\* The chosen element is one of the set.
LEMMA ChosenIn == ASSUME NEW S, S # {} PROVE Chosen(S) \in S
  BY DEF Chosen

\* Two functions that obey the recursion agree where both are defined.
LEMMA SumUnique ==
    ASSUME NEW f, NEW g, NEW h, NEW S, NEW T, IsSumOn(g, f, S), IsSumOn(h, f, T),
           NEW W, IsFiniteSet(W), W \subseteq S, W \subseteq T
    PROVE  g[W] = h[W]
<1> SUFFICES ASSUME g[W] # h[W] PROVE FALSE
  OBVIOUS
<1> DEFINE C == {V \in SUBSET W : g[V] # h[V]}
<1>1. W \in C /\ \A V \in C : IsFiniteSet(V)
  BY FS_Subset
<1>2. PICK V \in C : \A X \in C : ~(X \subseteq V /\ X # V)
  <2> HIDE DEF C
  <2> QED
    BY <1>1, SmallestSet
<1>3. V \in SUBSET S /\ V \in SUBSET T
  OBVIOUS
<1>4. g[V] = SumStep(f, g, V) /\ h[V] = SumStep(f, h, V)
  BY <1>3 DEF IsSumOn
<1>5. V # {}
  BY <1>4 DEF SumStep
<1>6. V \ {Chosen(V)} \notin C
  BY <1>2, <1>5, ChosenIn
<1>7. g[V \ {Chosen(V)}] = h[V \ {Chosen(V)}]
  BY <1>6
<1> QED
  BY <1>4, <1>5, <1>7 DEF SumStep

\* There is one for every finite set.
LEMMA SumExists ==
    ASSUME NEW f, NEW S, IsFiniteSet(S)
    PROVE  \E g : IsSumOn(g, f, S)
<1> SUFFICES ASSUME ~ \E g : IsSumOn(g, f, S) PROVE FALSE
  OBVIOUS
<1> DEFINE C == {V \in SUBSET S : ~ \E g : IsSumOn(g, f, V)}
<1>1. S \in C /\ \A V \in C : IsFiniteSet(V)
  BY FS_Subset
<1>2. PICK V \in C : \A X \in C : ~(X \subseteq V /\ X # V)
  <2> HIDE DEF C
  <2> QED
    BY <1>1, SmallestSet
<1> DEFINE G(X) == CHOOSE g : IsSumOn(g, f, X)
           value(X) == IF X = {} THEN 0 ELSE f[Chosen(X)] + G(X \ {Chosen(X)})[X \ {Chosen(X)}]
           h == [X \in SUBSET V |-> value(X)]
<1>3. ASSUME NEW X, X \subseteq V, X # V PROVE IsSumOn(G(X), f, X)
  <2>1. X \in SUBSET S /\ X \notin C
    BY <1>2, <1>3
  <2>2. \E g : IsSumOn(g, f, X)
    BY <2>1
  <2> QED
    BY <2>2
<1>4. ASSUME NEW X \in SUBSET V, X # V PROVE G(X)[X] = value(X)
  <2>1. IsSumOn(G(X), f, X)
    BY <1>3, <1>4
  <2>2. G(X)[X] = SumStep(f, G(X), X)
    BY <2>1 DEF IsSumOn
  <2>3. ASSUME X # {} PROVE G(X)[X \ {Chosen(X)}] = G(X \ {Chosen(X)})[X \ {Chosen(X)}]
    <3> DEFINE Y == X \ {Chosen(X)}
    <3>1. Y \subseteq X /\ Y \subseteq V /\ Y # V
      BY <2>3, ChosenIn
    <3>2. IsSumOn(G(Y), f, Y)
      BY <1>3, <3>1
    <3>3. IsFiniteSet(Y)
      BY <1>1, <3>1, FS_Subset
    <3> HIDE DEF G, Y
    <3>4. G(X)[Y] = G(Y)[Y]
      BY <2>1, <3>1, <3>2, <3>3, SumUnique
    <3> QED
      BY <3>4 DEF Y
  <2> HIDE DEF G
  <2> QED
    BY <2>2, <2>3 DEF SumStep
<1>5. ASSUME NEW X \in SUBSET V, X # {}
      PROVE  h[X \ {Chosen(X)}] = G(X \ {Chosen(X)})[X \ {Chosen(X)}]
  <2>1. X \ {Chosen(X)} \in SUBSET V /\ X \ {Chosen(X)} # V
    BY <1>5, ChosenIn
  <2>2. G(X \ {Chosen(X)})[X \ {Chosen(X)}] = value(X \ {Chosen(X)})
    BY <1>4, <2>1
  <2> HIDE DEF value, G
  <2> QED
    BY <2>1, <2>2
<1>6. ASSUME NEW X \in SUBSET V PROVE h[X] = SumStep(f, h, X)
  <2>1. h[X] = value(X)
    OBVIOUS
  <2> HIDE DEF h
  <2> QED
    BY <1>5, <2>1 DEF SumStep
<1>7. IsSumOn(h, f, V)
  <2>1. h = [X \in SUBSET V |-> h[X]]
    OBVIOUS
  <2> HIDE DEF h
  <2> QED
    BY <1>6, <2>1 DEF IsSumOn
<1>8. \E g : IsSumOn(g, f, V)
  <2> HIDE DEF h
  <2> QED
    BY <1>7
<1> QED
  BY <1>8

\* What the operator of the community modules is, on a finite set.
LEMMA SumIs ==
    ASSUME NEW f, NEW S, IsFiniteSet(S)
    PROVE  \E g : IsSumOn(g, f, S) /\ \A T \in SUBSET S : SumFunctionOnSet(f, T) = g[T]
<1> DEFINE G(X) == CHOOSE g : IsSumOn(g, f, X)
<1>1. ASSUME NEW T \in SUBSET S PROVE IsSumOn(G(T), f, T) /\ IsFiniteSet(T)
  <2>1. IsFiniteSet(T)
    BY FS_Subset
  <2>2. \E g : IsSumOn(g, f, T)
    BY <2>1, SumExists
  <2> QED
    BY <2>1, <2>2
<1>2. ASSUME NEW T PROVE SumFunctionOnSet(f, T) = G(T)[T]
  BY Zenon DEF SumFunctionOnSet, FoldFunctionOnSet, MapThenFoldSet, IsSumOn, SumStep, Chosen
<1> HIDE DEF G
<1>3. IsSumOn(G(S), f, S)
  BY <1>1
<1>4. \A T \in SUBSET S : SumFunctionOnSet(f, T) = G(S)[T]
  BY <1>1, <1>2, <1>3, SumUnique
<1> QED
  BY <1>3, <1>4

\* No elements, no sum.
LEMMA SumEmpty == \A f : SumFunctionOnSet(f, {}) = 0
<1> SUFFICES ASSUME NEW f PROVE SumFunctionOnSet(f, {}) = 0
  OBVIOUS
<1>1. IsFiniteSet({})
  BY FS_EmptySet
<1>2. PICK g : IsSumOn(g, f, {}) /\ \A T \in SUBSET {} : SumFunctionOnSet(f, T) = g[T]
  BY <1>1, SumIs
<1>3. g[{}] = SumStep(f, g, {})
  BY <1>2 DEF IsSumOn
<1> QED
  BY <1>2, <1>3 DEF SumStep

\* The element that is chosen is taken out.
LEMMA SumChosen ==
    ASSUME NEW f, NEW S, IsFiniteSet(S), S # {}
    PROVE  SumFunctionOnSet(f, S) = f[Chosen(S)] + SumFunctionOnSet(f, S \ {Chosen(S)})
<1>1. PICK g : IsSumOn(g, f, S) /\ \A T \in SUBSET S : SumFunctionOnSet(f, T) = g[T]
  BY SumIs
<1>2. g[S] = SumStep(f, g, S)
  BY <1>1 DEF IsSumOn
<1> QED
  BY <1>1, <1>2 DEF SumStep

\* A sum of natural numbers is one.
LEMMA SumNat ==
    ASSUME NEW f, NEW S, IsFiniteSet(S), \A x \in S : f[x] \in Nat
    PROVE  SumFunctionOnSet(f, S) \in Nat
<1> SUFFICES ASSUME SumFunctionOnSet(f, S) \notin Nat PROVE FALSE
  OBVIOUS
<1> DEFINE C == {V \in SUBSET S : SumFunctionOnSet(f, V) \notin Nat}
<1>1. S \in C /\ \A V \in C : IsFiniteSet(V)
  BY FS_Subset
<1>2. PICK V \in C : \A X \in C : ~(X \subseteq V /\ X # V)
  <2> HIDE DEF C
  <2> QED
    BY <1>1, SmallestSet
<1>3. V # {}
  BY SumEmpty
<1>4. V \ {Chosen(V)} \notin C /\ V \ {Chosen(V)} \in SUBSET S /\ Chosen(V) \in S
  BY <1>2, <1>3, ChosenIn
<1>5. SumFunctionOnSet(f, V \ {Chosen(V)}) \in Nat /\ f[Chosen(V)] \in Nat
  BY <1>4
<1>6. SumFunctionOnSet(f, V) = f[Chosen(V)] + SumFunctionOnSet(f, V \ {Chosen(V)})
  BY <1>1, <1>3, SumChosen
<1>7. SumFunctionOnSet(f, V) \in Nat
  BY <1>5, <1>6
<1> QED
  BY <1>7

\* Any element can be taken out instead.
LEMMA SumRemove ==
    ASSUME NEW f, NEW S, IsFiniteSet(S), \A x \in S : f[x] \in Nat, NEW a \in S
    PROVE  SumFunctionOnSet(f, S) = f[a] + SumFunctionOnSet(f, S \ {a})
<1> DEFINE Sum(X) == SumFunctionOnSet(f, X)
           Wrong(X) == \E x \in X : Sum(X) # f[x] + Sum(X \ {x})
<1> SUFFICES ASSUME Wrong(S) PROVE FALSE
  OBVIOUS
<1> DEFINE C == {V \in SUBSET S : Wrong(V)}
<1>1. S \in C /\ \A V \in C : IsFiniteSet(V)
  BY FS_Subset
<1>2. PICK V \in C : \A X \in C : ~(X \subseteq V /\ X # V)
  <2> HIDE DEF C
  <2> QED
    BY <1>1, SmallestSet
<1>3. PICK x \in V : Sum(V) # f[x] + Sum(V \ {x})
  OBVIOUS
<1> DEFINE c == Chosen(V)
<1>4. c \in V /\ V \subseteq S
  BY <1>3, ChosenIn
<1>5. IsFiniteSet(V) /\ Sum(V) = f[c] + Sum(V \ {c})
  BY <1>1, <1>3, SumChosen
<1>6. x # c
  BY <1>3, <1>5
<1>7. ASSUME NEW X \in SUBSET V, X # V, NEW y \in X PROVE Sum(X) = f[y] + Sum(X \ {y})
  BY <1>2, <1>7
<1>8. Sum(V \ {c}) = f[x] + Sum((V \ {c}) \ {x})
  BY <1>4, <1>6, <1>7
<1>9. Sum(V \ {x}) = f[c] + Sum((V \ {x}) \ {c})
  BY <1>4, <1>6, <1>7
<1>10. (V \ {c}) \ {x} = (V \ {x}) \ {c}
  OBVIOUS
<1>11. Sum((V \ {c}) \ {x}) \in Nat /\ f[x] \in Nat /\ f[c] \in Nat
  <2>1. IsFiniteSet((V \ {c}) \ {x})
    BY <1>5, FS_Subset
  <2> QED
    BY <1>4, <2>1, SumNat
<1>12. Sum(V) = f[x] + Sum(V \ {x})
  <2> HIDE DEF Sum, c, Wrong, C
  <2> QED
    BY <1>5, <1>8, <1>9, <1>10, <1>11
<1> QED
  BY <1>3, <1>12

\* An element more adds its value.
LEMMA SumAdd ==
    ASSUME NEW f, NEW S, IsFiniteSet(S), NEW a, a \notin S, \A x \in S \cup {a} : f[x] \in Nat
    PROVE  SumFunctionOnSet(f, S \cup {a}) = f[a] + SumFunctionOnSet(f, S)
<1>1. IsFiniteSet(S \cup {a})
  BY FS_AddElement
<1>2. (S \cup {a}) \ {a} = S
  OBVIOUS
<1>3. a \in S \cup {a}
  OBVIOUS
<1>4. SumFunctionOnSet(f, S \cup {a}) = f[a] + SumFunctionOnSet(f, (S \cup {a}) \ {a})
  BY <1>1, <1>3, SumRemove
<1> QED
  BY <1>2, <1>4

\* The sum of one value is that value.
LEMMA SumOne ==
    ASSUME NEW f, NEW a, f[a] \in Nat
    PROVE  SumFunctionOnSet(f, {a}) = f[a]
<1>1. SumFunctionOnSet(f, {} \cup {a}) = f[a] + SumFunctionOnSet(f, {})
  BY FS_EmptySet, SumAdd
<1>2. {} \cup {a} = {a}
  OBVIOUS
<1> QED
  BY <1>1, <1>2, SumEmpty

\* Values outside the set do not count.
LEMMA SumAgree ==
    ASSUME NEW f, NEW g, NEW S, IsFiniteSet(S), \A x \in S : f[x] = g[x]
    PROVE  SumFunctionOnSet(f, S) = SumFunctionOnSet(g, S)
<1> SUFFICES ASSUME SumFunctionOnSet(f, S) # SumFunctionOnSet(g, S) PROVE FALSE
  OBVIOUS
<1> DEFINE C == {V \in SUBSET S : SumFunctionOnSet(f, V) # SumFunctionOnSet(g, V)}
<1>1. S \in C /\ \A V \in C : IsFiniteSet(V)
  BY FS_Subset
<1>2. PICK V \in C : \A X \in C : ~(X \subseteq V /\ X # V)
  <2> HIDE DEF C
  <2> QED
    BY <1>1, SmallestSet
<1>3. V # {}
  BY SumEmpty
<1>4. V \ {Chosen(V)} \notin C /\ V \ {Chosen(V)} \in SUBSET S /\ Chosen(V) \in S
  BY <1>2, <1>3, ChosenIn
<1>5. SumFunctionOnSet(f, V \ {Chosen(V)}) = SumFunctionOnSet(g, V \ {Chosen(V)})
  BY <1>4
<1>6. /\ SumFunctionOnSet(f, V) = f[Chosen(V)] + SumFunctionOnSet(f, V \ {Chosen(V)})
      /\ SumFunctionOnSet(g, V) = g[Chosen(V)] + SumFunctionOnSet(g, V \ {Chosen(V)})
  BY <1>1, <1>3, SumChosen
<1>7. SumFunctionOnSet(f, V) = SumFunctionOnSet(g, V)
  BY <1>4, <1>5, <1>6
<1> QED
  BY <1>7

-----------------------------------------------------------------------------
(* One window, sample by sample *)

\* What is left of a window, and the places of the numbers that were read.
IsRestOf(left, window) ==
    /\ Len(left) <= Len(window)
    /\ \A j \in 1 .. Len(left) : left[j] = window[Len(window) - Len(left) + j]

ReadOf(window, left) == {i \in Numbers(window) : i <= Len(window) - Len(left)}

\* The numbers of a window.
LEMMA NumbersInv ==
    ASSUME NEW window \in Seq(Nat \cup {NaN})
    PROVE  /\ IsFiniteSet(Numbers(window))
           /\ \A i \in Numbers(window) : i \in 1 .. Len(window) /\ window[i] \in Nat
           /\ SumOfNumbers(window) \in Nat
           /\ Cardinality(Numbers(window)) \in Nat
<1>1. DOMAIN window = 1 .. Len(window) /\ Len(window) \in Nat
  OBVIOUS
<1>2. IsFiniteSet(Numbers(window))
  <2>1. IsFiniteSet(1 .. Len(window))
    BY <1>1, FS_Interval
  <2>2. Numbers(window) \in SUBSET (1 .. Len(window))
    BY <1>1 DEF Numbers
  <2> QED
    BY <2>1, <2>2, FS_Subset
<1>3. \A i \in Numbers(window) : i \in 1 .. Len(window) /\ window[i] \in Nat
  BY <1>1 DEF Numbers
<1>4. SumOfNumbers(window) \in Nat
  BY <1>2, <1>3, SumNat DEF SumOfNumbers
<1> QED
  BY <1>2, <1>3, <1>4, FS_CardinalityType

\* The numbers that were read so far.
LEMMA ReadOfInv ==
    ASSUME NEW window \in Seq(Nat \cup {NaN}), NEW left
    PROVE  /\ IsFiniteSet(ReadOf(window, left))
           /\ \A i \in ReadOf(window, left) : i \in Numbers(window) /\ window[i] \in Nat
           /\ SumFunctionOnSet(window, ReadOf(window, left)) \in Nat
<1>1. ReadOf(window, left) \in SUBSET Numbers(window)
  BY DEF ReadOf
<1>2. IsFiniteSet(ReadOf(window, left))
  BY <1>1, NumbersInv, FS_Subset
<1>3. \A i \in ReadOf(window, left) : window[i] \in Nat
  BY <1>1, NumbersInv
<1> QED
  BY <1>1, <1>2, <1>3, SumNat

\* Nothing was read at the beginning of a window, all of it at its end.
LEMMA ReadBeginEnd ==
    ASSUME NEW window \in Seq(Nat \cup {NaN})
    PROVE  /\ IsRestOf(window, window)
           /\ ReadOf(window, window) = {}
           /\ ReadOf(window, <<>>) = Numbers(window)
<1>1. Len(window) \in Nat
  OBVIOUS
<1>2. IsRestOf(window, window)
  BY <1>1 DEF IsRestOf
<1>3. ReadOf(window, window) = {}
  BY <1>1, NumbersInv DEF ReadOf
<1>4. ReadOf(window, <<>>) = Numbers(window)
  BY <1>1, NumbersInv DEF ReadOf
<1> QED
  BY <1>2, <1>3, <1>4

\* One sample is read.
LEMMA ReadOne ==
    ASSUME NEW window \in Seq(Nat \cup {NaN}), NEW left \in Seq(Nat \cup {NaN}),
           IsRestOf(left, window), left # <<>>
    PROVE  /\ Head(left) \in Nat \cup {NaN}
           /\ Tail(left) \in Seq(Nat \cup {NaN})
           /\ IsRestOf(Tail(left), window)
           /\ Head(left) = NaN => ReadOf(window, Tail(left)) = ReadOf(window, left)
           /\ Head(left) # NaN =>
                 \E i \in Numbers(window) : /\ window[i] = Head(left)
                                            /\ i \notin ReadOf(window, left)
                                            /\ ReadOf(window, Tail(left)) = ReadOf(window, left) \cup {i}
<1> DEFINE i == Len(window) - Len(left) + 1
<1>1. Len(left) \in Nat \ {0} /\ Len(window) \in Nat /\ Len(left) <= Len(window)
  BY DEF IsRestOf
<1>2. /\ Head(left) \in Nat \cup {NaN} /\ Tail(left) \in Seq(Nat \cup {NaN})
      /\ Len(Tail(left)) = Len(left) - 1
      /\ \A j \in 1 .. Len(Tail(left)) : Tail(left)[j] = left[j + 1]
      /\ Head(left) = left[1]
  BY HeadTailProperties
<1>3. i \in 1 .. Len(window) /\ window[i] = Head(left)
  BY <1>1, <1>2 DEF IsRestOf
<1>4. IsRestOf(Tail(left), window)
  <2> SUFFICES ASSUME NEW j \in 1 .. Len(Tail(left))
               PROVE  Tail(left)[j] = window[Len(window) - Len(Tail(left)) + j]
    BY <1>1, <1>2 DEF IsRestOf
  <2>1. j \in Nat /\ j + 1 \in 1 .. Len(left) /\ Tail(left)[j] = left[j + 1]
    BY <1>1, <1>2
  <2>2. left[j + 1] = window[Len(window) - Len(left) + (j + 1)]
    BY <2>1 DEF IsRestOf
  <2>3. Len(window) - Len(left) + (j + 1) = Len(window) - Len(Tail(left)) + j
    BY <1>1, <1>2, <2>1
  <2> QED
    BY <2>1, <2>2, <2>3
<1>5. \A m \in 1 .. Len(window) :
         m <= Len(window) - Len(Tail(left)) <=> m <= Len(window) - Len(left) \/ m = i
  BY <1>1, <1>2
<1>6. ~(i <= Len(window) - Len(left))
  BY <1>1
<1>7. i \in Numbers(window) <=> Head(left) # NaN
  BY <1>3 DEF Numbers
<1>8. Head(left) = NaN => ReadOf(window, Tail(left)) = ReadOf(window, left)
  BY <1>5, <1>7, NumbersInv DEF ReadOf
<1>9. Head(left) # NaN => /\ i \notin ReadOf(window, left)
                          /\ ReadOf(window, Tail(left)) = ReadOf(window, left) \cup {i}
  <2> HIDE DEF i
  <2> QED
    BY <1>5, <1>6, <1>7, NumbersInv DEF ReadOf, i
<1> QED
  BY <1>2, <1>3, <1>4, <1>7, <1>8, <1>9

\* A number that is read adds to the sum and to the number of those that were.
LEMMA ReadAdds ==
    ASSUME NEW window \in Seq(Nat \cup {NaN}), NEW left \in Seq(Nat \cup {NaN}),
           IsRestOf(left, window), left # <<>>, Head(left) # NaN
    PROVE  /\ SumFunctionOnSet(window, ReadOf(window, Tail(left)))
                = SumFunctionOnSet(window, ReadOf(window, left)) + Head(left)
           /\ Cardinality(ReadOf(window, Tail(left))) = Cardinality(ReadOf(window, left)) + 1
<1>1. PICK i \in Numbers(window) :
         /\ window[i] = Head(left)
         /\ i \notin ReadOf(window, left)
         /\ ReadOf(window, Tail(left)) = ReadOf(window, left) \cup {i}
  BY ReadOne
<1> DEFINE R == ReadOf(window, left)
<1>2. IsFiniteSet(R) /\ \A x \in R \cup {i} : window[x] \in Nat
  BY ReadOfInv, NumbersInv
<1>3. SumFunctionOnSet(window, R) \in Nat /\ Head(left) \in Nat
  BY <1>1, <1>2, ReadOfInv
<1> HIDE DEF R
<1>4. SumFunctionOnSet(window, R \cup {i}) = window[i] + SumFunctionOnSet(window, R)
  BY <1>1, <1>2, SumAdd DEF R
<1>5. Cardinality(R \cup {i}) = Cardinality(R) + 1
  BY <1>1, <1>2, FS_AddElement DEF R
<1>6. ReadOf(window, Tail(left)) = R \cup {i}
  BY <1>1 DEF R
<1>7. window[i] = Head(left)
  BY <1>1
<1>8. window[i] + SumFunctionOnSet(window, R) = SumFunctionOnSet(window, R) + Head(left)
  BY <1>3, <1>7
<1>9. SumFunctionOnSet(window, ReadOf(window, Tail(left)))
        = SumFunctionOnSet(window, R) + Head(left)
  BY <1>4, <1>6, <1>8
<1>10. Cardinality(ReadOf(window, Tail(left))) = Cardinality(R) + 1
  BY <1>5, <1>6
<1> QED
  BY <1>9, <1>10 DEF R

-----------------------------------------------------------------------------
(* The counters.  TotalsTypeOK and PartsWithinWhole need each other: the   *)
(* numerator of a success rate is a natural number because no more         *)
(* requests failed than there were.                                        *)

TotalsIInv == TotalsTypeOK /\ PartsWithinWhole

\* Nothing is counted at first.
LEMMA TotalsInitIInv == TotalsInit => TotalsIInv
<1> SUFFICES ASSUME TotalsInit PROVE TotalsIInv
  OBVIOUS
<1>1. TotalsTypeOK
  BY EmptySeq DEF TotalsInit, TotalsTypeOK, Views, Zero, NoSeries, SeriesTypeOK
<1>2. PartsWithinWhole
  BY DEF TotalsInit, PartsWithinWhole, Zero, Counters, NoSeries
<1> QED
  BY <1>1, <1>2 DEF TotalsIInv

\* A row's counters after a series of some result, by the result.
LEMMA AddedInv ==
    ASSUME TotalsTypeOK, PartsWithinWhole, NEW k \in RowKeys
    PROVE  /\ Added(k) \in [Counters -> Nat]
           /\ Added(k)["limited"] + Added(k)["circuit"] <= Added(k)["failed"]
           /\ Added(k)["failed"] <= Added(k)["total"]
<1> DEFINE extra(c) == IF c \in CountersOf(cur.result) THEN total ELSE 0
<1>1. /\ counts[k] \in [Counters -> Nat] /\ total \in Nat
      /\ counts[k]["limited"] + counts[k]["circuit"] <= counts[k]["failed"]
      /\ counts[k]["failed"] <= counts[k]["total"]
  BY DEF TotalsTypeOK, PartsWithinWhole, SeriesTypeOK
<1>2. \A c \in Counters : counts[k][c] \in Nat /\ extra(c) \in Nat
  BY <1>1
<1>3. Added(k) \in [Counters -> Nat] /\ \A c \in Counters : Added(k)[c] = counts[k][c] + extra(c)
  BY <1>1, <1>2 DEF Added
<1>4. extra("limited") + extra("circuit") <= extra("failed") /\ extra("failed") <= extra("total")
  <2>1. CASE view = "rows"
    BY <1>1, <2>1 DEF CountersOf, RowCounters
  <2>2. CASE view # "rows"
    BY <1>1, <2>2 DEF CountersOf, MethodCounters
  <2> QED
    BY <2>1, <2>2
<1> HIDE DEF extra
<1>5. {"limited", "circuit", "failed", "total"} \subseteq Counters
  BY DEF Counters
<1> QED
  BY <1>1, <1>2, <1>3, <1>4, <1>5

\* The end of a series.
LEMMA AddSeriesStep == TotalsIInv /\ AddSeries => TotalsIInv'
<1> SUFFICES ASSUME TotalsIInv, AddSeries PROVE TotalsIInv'
  OBVIOUS
<1>1. TotalsTypeOK /\ PartsWithinWhole
  BY DEF TotalsIInv
<1>2. \A k \in RowKeys : counts'[k] = IF k \in Touched(cur) THEN Added(k) ELSE counts[k]
  BY DEF AddSeries, EndSeries
<1>3. \A k \in RowKeys :
         /\ counts'[k] \in [Counters -> Nat]
         /\ counts'[k]["limited"] + counts'[k]["circuit"] <= counts'[k]["failed"]
         /\ counts'[k]["failed"] <= counts'[k]["total"]
  BY <1>1, <1>2, AddedInv DEF TotalsTypeOK, PartsWithinWhole, SeriesTypeOK
<1>4. PartsWithinWhole'
  BY <1>3 DEF PartsWithinWhole
<1>5. \A k \in RowKeys : RateOf(Added(k), rate[k]) \in Nat \X Nat
  <2> SUFFICES ASSUME NEW k \in RowKeys PROVE RateOf(Added(k), rate[k]) \in Nat \X Nat
    OBVIOUS
  <2> DEFINE row == Added(k)
  <2>1. rate[k] \in Nat \X Nat
    BY <1>1 DEF TotalsTypeOK, SeriesTypeOK
  <2>2. row \in [Counters -> Nat] /\ row["failed"] <= row["total"]
    BY <1>1, AddedInv
  <2>3. row["failed"] \in Nat /\ row["total"] \in Nat
    BY <2>2 DEF Counters
  <2> HIDE DEF row
  <2>4. row["total"] - row["failed"] \in Nat
    BY <2>2, <2>3
  <2>5. RateOf(row, rate[k]) \in Nat \X Nat
    BY <2>1, <2>3, <2>4 DEF RateOf
  <2> QED
    BY <2>5 DEF row
<1>6. rate' \in [RowKeys -> Nat \X Nat]
  BY <1>1, <1>5 DEF AddSeries, TotalsTypeOK, EndSeries, SeriesTypeOK
<1>7. counts' \in [RowKeys -> [Counters -> Nat]]
  BY <1>3 DEF AddSeries, EndSeries
<1>8. TotalsTypeOK'
  BY <1>1, <1>6, <1>7 DEF AddSeries, TotalsTypeOK, EndSeries, SeriesTypeOK
<1> QED
  BY <1>4, <1>8 DEF TotalsIInv

\* The other steps leave the counters alone or start again from nothing.
LEMMA TotalsNextIInv == TotalsIInv /\ [TotalsNext]_totalsVars => TotalsIInv'
<1> SUFFICES ASSUME TotalsIInv, [TotalsNext]_totalsVars PROVE TotalsIInv'
  OBVIOUS
<1>0. TotalsTypeOK /\ PartsWithinWhole
  BY DEF TotalsIInv
<1>1. ASSUME NEW shape \in Views, AskCounters(shape) PROVE TotalsIInv'
  <2>1. TotalsTypeOK'
    BY <1>0, <1>1 DEF AskCounters, TotalsTypeOK, RowKeys, SeriesTypeOK
  <2>2. PartsWithinWhole'
    BY <1>0, <1>1 DEF AskCounters, PartsWithinWhole
  <2> QED
    BY <2>1, <2>2 DEF TotalsIInv
<1>2. ASSUME NEW s \in SumSeries, ReachSum(s) PROVE TotalsIInv'
  <2>1. s.values \in Seq(Nat \cup {NaN}) /\ s.row \in RowKeys
    BY SeriesAssumption DEF SumSeries, RowKeys
  <2>2. TotalsTypeOK'
    BY <1>0, <1>2, <2>1 DEF ReachSum, TotalsTypeOK, ReachSeries, SeriesTypeOK
  <2>3. PartsWithinWhole'
    BY <1>0, <1>2 DEF ReachSum, PartsWithinWhole, ReachSeries
  <2> QED
    BY <2>2, <2>3 DEF TotalsIInv
<1>3. CASE AddCount
  <2>1. CountOf(Head(rest)) \in Nat
    BY DEF CountOf
  <2>2. Tail(rest) \in Seq(Nat \cup {NaN})
    BY <1>0, <1>3, HeadTailProperties DEF AddCount, TotalsTypeOK, ReadSample, SeriesTypeOK
  <2>3. TotalsTypeOK'
    BY <1>0, <1>3, <2>1, <2>2 DEF AddCount, TotalsTypeOK, ReadSample, SeriesTypeOK
  <2>4. PartsWithinWhole'
    BY <1>0, <1>3 DEF AddCount, PartsWithinWhole, ReadSample
  <2> QED
    BY <2>3, <2>4 DEF TotalsIInv
<1>4. CASE ShowCounters
  <2>1. TotalsTypeOK'
    BY <1>0, <1>4 DEF ShowCounters, TotalsTypeOK, EndAnswer, SeriesTypeOK
  <2>2. PartsWithinWhole'
    BY <1>0, <1>4 DEF ShowCounters, PartsWithinWhole, EndAnswer
  <2> QED
    BY <2>1, <2>2 DEF TotalsIInv
<1>5. CASE ForgetCounters
  <2>1. TotalsTypeOK'
    BY <1>0, <1>5, EmptySeq DEF ForgetCounters, TotalsTypeOK, Views, Zero, Forget, SeriesTypeOK
  <2>2. PartsWithinWhole'
    BY <1>5 DEF ForgetCounters, PartsWithinWhole, Zero, Counters, Forget
  <2> QED
    BY <2>1, <2>2 DEF TotalsIInv
<1>6. CASE UNCHANGED totalsVars
  BY <1>0, <1>6 DEF totalsVars, TotalsIInv, TotalsTypeOK, PartsWithinWhole, SeriesTypeOK
<1> QED
  BY <1>1, <1>2, <1>3, <1>4, <1>5, <1>6, AddSeriesStep DEF TotalsNext

\* The invariant that the theorems below rest on.
THEOREM TotalsInv == TotalsSpec => []TotalsIInv
<1> QED
  BY TotalsInitIInv, TotalsNextIInv, PTL DEF TotalsSpec

\* Every counter and the numerator of every rate is a natural number.
THEOREM TotalsTypes == TotalsSpec => []TotalsTypeOK
<1>1. TotalsIInv => TotalsTypeOK
  BY DEF TotalsIInv
<1> QED
  BY <1>1, TotalsInv, PTL

\* No more requests are limited, rejected or failed than there were.
THEOREM TotalsParts == TotalsSpec => []PartsWithinWhole
<1>1. TotalsIInv => PartsWithinWhole
  BY DEF TotalsIInv
<1> QED
  BY <1>1, TotalsInv, PTL

-----------------------------------------------------------------------------
(* The success rate *)

\* Every row, made or not, has the rate of its counters.
RateInv ==
    /\ pc = "idle" => view = "rows"
    /\ view = "rows" =>
          \A k \in Keys :
             rate[k] = IF counts[k]["total"] = 0 THEN <<0, 1>>
                       ELSE <<counts[k]["total"] - counts[k]["failed"], counts[k]["total"]>>

\* A series changes the counters and the rate of its row together.
LEMMA AddSeriesRate == TotalsIInv /\ RateInv /\ AddSeries => RateInv'
<1> SUFFICES ASSUME TotalsIInv, RateInv, AddSeries PROVE RateInv'
  OBVIOUS
<1>1. view' = view /\ pc' = pc
  BY DEF AddSeries, EndSeries
<1>2. ASSUME view = "rows", NEW k \in Keys
      PROVE  rate'[k] = IF counts'[k]["total"] = 0 THEN <<0, 1>>
                        ELSE <<counts'[k]["total"] - counts'[k]["failed"], counts'[k]["total"]>>
  <2>1. k \in RowKeys
    BY DEF RowKeys
  <2>2. CASE k = cur.row
    <3>1. counts'[k] = Added(k) /\ rate'[k] = RateOf(Added(k), rate[k])
      BY <1>2, <2>1, <2>2 DEF AddSeries, Touched, EndSeries
    <3>2. Added(k)["total"] = counts[k]["total"] + total
      BY <1>2 DEF Added, Counters, CountersOf, RowCounters
    <3>3. counts[k]["total"] \in Nat /\ total \in Nat
      BY <2>1 DEF TotalsIInv, TotalsTypeOK, Counters, SeriesTypeOK
    <3>4. CASE Added(k)["total"] = 0
      <4>1. counts[k]["total"] = 0
        BY <3>2, <3>3, <3>4
      <4>2. rate[k] = <<0, 1>>
        BY <1>2, <4>1 DEF RateInv
      <4> QED
        BY <3>1, <3>4, <4>2 DEF RateOf
    <3>5. CASE Added(k)["total"] # 0
      BY <3>1, <3>5 DEF RateOf
    <3> QED
      BY <3>4, <3>5
  <2>3. CASE k # cur.row
    <3>1. counts'[k] = counts[k] /\ rate'[k] = rate[k]
      BY <1>2, <2>1, <2>3 DEF AddSeries, Touched, EndSeries
    <3> QED
      BY <1>2, <3>1 DEF RateInv
  <2> QED
    BY <2>2, <2>3
<1> QED
  BY <1>1, <1>2 DEF RateInv

\* The rate beside the counters is always theirs: every series brings both up to
\* date, and a row without requests keeps the rate 0 it was made with.
THEOREM TotalsRate == TotalsSpec => []RateIsCurrent
<1>1. TotalsInit => RateInv
  BY DEF TotalsInit, RateInv, Zero, RowKeys, Counters, NoSeries
<1>2. TotalsIInv /\ RateInv /\ [TotalsNext]_totalsVars => RateInv'
  <2> SUFFICES ASSUME TotalsIInv, RateInv, [TotalsNext]_totalsVars PROVE RateInv'
    OBVIOUS
  <2>1. ASSUME NEW shape \in Views, AskCounters(shape) PROVE RateInv'
    BY <2>1 DEF AskCounters, RateInv
  <2>2. ASSUME NEW s \in SumSeries, ReachSum(s) PROVE RateInv'
    BY <2>2 DEF ReachSum, RateInv, ReachSeries
  <2>3. CASE AddCount
    BY <2>3 DEF AddCount, RateInv, ReadSample
  <2>4. CASE ShowCounters
    BY <2>4 DEF ShowCounters, RateInv, EndAnswer
  <2>5. CASE ForgetCounters
    BY <2>5 DEF ForgetCounters, RateInv, Zero, RowKeys, Counters, Forget
  <2>6. CASE UNCHANGED totalsVars
    BY <2>6 DEF totalsVars, RateInv
  <2> QED
    BY <2>1, <2>2, <2>3, <2>4, <2>5, <2>6, AddSeriesRate DEF TotalsNext
<1>3. TotalsIInv /\ RateInv => RateIsCurrent
  <2> SUFFICES ASSUME TotalsIInv, RateInv, NEW k \in made \ {All}, view = "rows"
               PROVE  rate[k] = IF counts[k]["total"] = 0 THEN <<0, 1>>
                                ELSE <<counts[k]["total"] - counts[k]["failed"], counts[k]["total"]>>
    BY DEF RateIsCurrent
  <2>1. k \in Keys
    BY DEF TotalsIInv, TotalsTypeOK, RowKeys, SeriesTypeOK
  <2> QED
    BY <2>1 DEF RateInv
<1> QED
  BY <1>1, <1>2, <1>3, TotalsInv, PTL DEF TotalsSpec

\* Counters and rate agree at any moment of the loop (CalSuccessRate).
THEOREM TotalsRatesFit == TotalsSpec => []RatesFit
<1>1. PartsWithinWhole /\ RateIsCurrent => RatesFit
  BY DEF RatesFit
<1> QED
  BY <1>1, TotalsParts, TotalsRate, PTL

-----------------------------------------------------------------------------
(* Counters are sums *)

\* What was added is what was read; what is counted is what has ended.
CountersInv ==
    /\ IsFiniteSet(answer) /\ IsFiniteSet(made)
    /\ cur # None => /\ IsRestOf(rest, cur.values)
                     /\ total = SumFunctionOnSet(cur.values, ReadOf(cur.values, rest))
    /\ pc = "idle" => answer = {} /\ made = {} /\ cur = None /\ view = "rows"
    /\ All \in made => view = "methods"
    /\ made \ {All} = {s.row : s \in answer}
    /\ \A k \in RowKeys, c \in Counters :
          k \in Keys \/ view = "methods" => counts[k][c] = SumOf(k, c)
    /\ view = "rows" => counts[All] = Zero
    /\ AllIsTheSum

\* The series of an answer.
LEMMA SumSeriesInv ==
    ASSUME NEW s \in SumSeries
    PROVE  /\ s # None
           /\ s.row \in Keys /\ s.row \in RowKeys /\ s.row # All
           /\ s.result \in Anything
           /\ s.values \in Seq(Nat \cup {NaN})
           /\ SumOfNumbers(s.values) \in Nat
<1>1. s.row \in Keys /\ s.result \in Results \cup {Unlabelled} /\ s.values \in Windows
  BY DEF SumSeries
<1>2. s = [row |-> s.row, result |-> s.result, values |-> s.values]
  BY DEF SumSeries
<1>3. s # None
  BY <1>1, <1>2, TotalsAssumption
<1>4. s.values \in Seq(Nat \cup {NaN})
  BY <1>1, SeriesAssumption
<1> QED
  BY <1>1, <1>3, <1>4, NumbersInv, TotalsAssumption DEF RowKeys, Anything

\* A counter is over finitely many series.
LEMMA SeriesForInv ==
    ASSUME TotalsTypeOK, IsFiniteSet(answer), NEW k \in RowKeys, NEW c \in Counters
    PROVE  /\ IsFiniteSet(SeriesFor(k, c)) /\ SeriesFor(k, c) \in SUBSET SumSeries
           /\ SumOf(k, c) \in Nat
<1>1. SeriesFor(k, c) \in SUBSET answer /\ answer \in SUBSET SumSeries
  BY DEF SeriesFor, Ended, TotalsTypeOK, SeriesTypeOK
<1>2. IsFiniteSet(SeriesFor(k, c))
  BY <1>1, FS_Subset
<1>3. \A s \in SeriesFor(k, c) : [t \in SumSeries |-> SumOfNumbers(t.values)][s] \in Nat
  BY <1>1, SumSeriesInv
<1> QED
  BY <1>1, <1>2, <1>3, SumNat DEF SumOf

\* A step that ends no series leaves the sums alone.
LEMMA SameSums ==
    ASSUME NEW k \in RowKeys, NEW c \in Counters, Ended' = Ended,
           view' = view \/ Ended = {}
    PROVE  SumOf(k, c)' = SumOf(k, c)
<1>1. SeriesFor(k, c)' = SeriesFor(k, c)
  BY DEF SeriesFor, Counted
<1> QED
  BY <1>1 DEF SumOf

\* The results that a counter counts are those whose series are added to it.
LEMMA CountedWhereAdded ==
    ASSUME TotalsTypeOK, NEW c \in Counters, NEW result \in Anything
    PROVE  c \in CountersOf(result) <=> result \in Counted(c)
<1>1. CASE view = "rows"
  BY <1>1, TotalsAssumption
     DEF CountersOf, RowCounters, Counted, CountedInRow, Counters, Failures
<1>2. CASE view # "rows"
  BY <1>2, TotalsAssumption
     DEF CountersOf, MethodCounters, Counted, CountedInMethod, Counters
<1> QED
  BY <1>1, <1>2

\* A series that ends adds its samples to the sums it belongs to.
LEMMA EndedAdds ==
    ASSUME TotalsTypeOK, IsFiniteSet(answer), AddSeries, NEW k \in RowKeys, NEW c \in Counters
    PROVE  SumOf(k, c)' = SumOf(k, c) +
              (IF (k = All \/ k = cur.row) /\ c \in CountersOf(cur.result)
                  THEN SumOfNumbers(cur.values) ELSE 0)
<1>1. /\ cur \in SumSeries /\ cur \in answer /\ answer \in SUBSET SumSeries
      /\ cur' = None /\ answer' = answer /\ view' = view
  BY DEF AddSeries, EndSeries, TotalsTypeOK, SeriesTypeOK
<1>2. None \notin answer /\ cur.result \in Anything
  BY <1>1, SumSeriesInv
<1>3. Ended' = Ended \cup {cur} /\ cur \notin Ended
  BY <1>1, <1>2 DEF Ended
<1>4. c \in CountersOf(cur.result) <=> cur.result \in Counted(c)
  BY <1>2, CountedWhereAdded
<1>5. Counted(c)' = Counted(c)
  BY <1>1 DEF Counted
<1> DEFINE f == [s \in SumSeries |-> SumOfNumbers(s.values)]
           here == (k = All \/ k = cur.row) /\ c \in CountersOf(cur.result)
<1>6. IsFiniteSet(SeriesFor(k, c)) /\ SeriesFor(k, c) \in SUBSET SumSeries /\ SumOf(k, c) \in Nat
  BY SeriesForInv
<1>7. f[cur] = SumOfNumbers(cur.values) /\ \A s \in SumSeries : f[s] \in Nat
  BY <1>1, SumSeriesInv
<1>8. SumOf(k, c) = SumFunctionOnSet(f, SeriesFor(k, c))
      /\ SumOf(k, c)' = SumFunctionOnSet(f, SeriesFor(k, c)')
  BY DEF SumOf
<1>9. CASE here
  <2>1. SeriesFor(k, c)' = SeriesFor(k, c) \cup {cur} /\ cur \notin SeriesFor(k, c)
    BY <1>3, <1>4, <1>5, <1>9 DEF SeriesFor
  <2>2. SumFunctionOnSet(f, SeriesFor(k, c) \cup {cur}) = f[cur] + SumFunctionOnSet(f, SeriesFor(k, c))
    <3> HIDE DEF f
    <3> QED
      BY <1>1, <1>6, <1>7, <2>1, SumAdd
  <2>3. f[cur] \in Nat
    BY <1>1, <1>7
  <2> HIDE DEF f
  <2> QED
    BY <1>6, <1>7, <1>8, <1>9, <2>1, <2>2, <2>3
<1>10. CASE ~here
  <2>1. SeriesFor(k, c)' = SeriesFor(k, c)
    BY <1>3, <1>4, <1>5, <1>10 DEF SeriesFor
  <2> HIDE DEF f
  <2> QED
    BY <1>6, <1>8, <1>10, <2>1
<1> QED
  BY <1>9, <1>10

\* Nothing is counted at first.
LEMMA CountersInit == TotalsInit => CountersInv
<1> SUFFICES ASSUME TotalsInit PROVE CountersInv
  OBVIOUS
<1>1. /\ pc = "idle" /\ answer = {} /\ cur = None /\ made = {} /\ view = "rows"
      /\ counts = [k \in RowKeys |-> Zero]
  BY DEF TotalsInit, NoSeries
<1>2. Ended = {}
  BY <1>1 DEF Ended
<1>3. \A k \in RowKeys, c \in Counters : SumOf(k, c) = 0 /\ counts[k][c] = 0
  <2> SUFFICES ASSUME NEW k \in RowKeys, NEW c \in Counters
               PROVE  SumOf(k, c) = 0 /\ counts[k][c] = 0
    OBVIOUS
  <2>1. SeriesFor(k, c) = {}
    BY <1>2 DEF SeriesFor
  <2>2. SumOf(k, c) = 0
    BY <2>1, SumEmpty DEF SumOf
  <2> QED
    BY <1>1, <2>2 DEF Zero
<1>4. IsFiniteSet(answer) /\ IsFiniteSet(made)
  BY <1>1, FS_EmptySet
<1>5. counts[All] = Zero
  BY <1>1 DEF RowKeys
<1> QED
  BY <1>1, <1>3, <1>4, <1>5 DEF CountersInv, AllIsTheSum

\* Steps that change no counter and end no series.
LEMMA CountersKept ==
    ASSUME TotalsTypeOK, CountersInv, TotalsTypeOK', Ended' = Ended, counts' = counts,
           view' = view \/ (Ended = {} /\ view = "rows" /\ made = {}),
           IsFiniteSet(answer)', IsFiniteSet(made)',
           cur' # None => /\ IsRestOf(rest, cur.values)'
                          /\ total' = SumFunctionOnSet(cur.values, ReadOf(cur.values, rest))',
           pc' = "idle" => answer' = {} /\ made' = {} /\ cur' = None /\ view' = "rows",
           All \in made' => view' = "methods",
           made' \ {All} = {s.row : s \in answer'},
           \/ made' \ {All} = made \ {All}
           \/ \E k \in Keys : /\ made' = made \cup {k} /\ k \notin made
                              /\ \A s \in answer : s.row # k
    PROVE  CountersInv'
<1>1. \A k \in RowKeys, c \in Counters : SumOf(k, c)' = SumOf(k, c)
  BY SameSums
<1>2. \A c \in Counters, k \in RowKeys : counts[k][c] \in Nat
  BY DEF TotalsTypeOK
<1>3. ASSUME view' # view, NEW k \in RowKeys, NEW c \in Counters
      PROVE  SumOf(k, c) = 0 /\ counts[k][c] = 0
  <2>1. SeriesFor(k, c) = {}
    BY <1>3 DEF SeriesFor
  <2>2. SumOf(k, c) = 0
    BY <2>1, SumEmpty DEF SumOf
  <2>3. k \in Keys => counts[k][c] = 0
    BY <2>2 DEF CountersInv
  <2>4. counts[All][c] = 0
    BY <1>3 DEF CountersInv, Zero
  <2> QED
    BY <2>2, <2>3, <2>4 DEF RowKeys
<1>4. \A k \in RowKeys, c \in Counters :
         k \in Keys \/ view' = "methods" => counts[k][c] = SumOf(k, c)
  BY <1>3 DEF CountersInv
<1>5. view' = "rows" => counts[All] = Zero
  BY DEF CountersInv, TotalsTypeOK, Views
<1>6. ASSUME view' = "methods", NEW c \in Counters
      PROVE  counts[All][c] = SumFunctionOnSet([k \in Keys |-> counts[k][c]], made' \ {All})
  <2> DEFINE f == [k \in Keys |-> counts[k][c]]
  <2>1. counts[All][c] = SumFunctionOnSet(f, made \ {All})
    <3>1. CASE view = view'
      BY <1>6, <3>1 DEF CountersInv, AllIsTheSum
    <3>2. CASE view # view'
      <4>1. counts[All][c] = 0
        BY <1>3, <3>2 DEF RowKeys
      <4>2. made \ {All} = {}
        BY <3>2
      <4> QED
        BY <4>1, <4>2, SumEmpty
    <3> QED
      BY <3>1, <3>2
  <2>2. CASE made' \ {All} = made \ {All}
    BY <2>1, <2>2
  <2>3. ASSUME NEW k \in Keys, made' = made \cup {k}, k \notin made, \A s \in answer : s.row # k
        PROVE  SumFunctionOnSet(f, made' \ {All}) = SumFunctionOnSet(f, made \ {All})
    <3>1. SeriesFor(k, c) = {}
      BY <2>3, TotalsAssumption DEF SeriesFor, Ended
    <3>2. counts[k][c] = 0
      BY <3>1, SumEmpty DEF CountersInv, SumOf, RowKeys
    <3>3. f[k] = 0 /\ k # All
      BY <3>2, TotalsAssumption
    <3>4. made' \ {All} = (made \ {All}) \cup {k} /\ k \notin made \ {All}
      BY <2>3, <3>3
    <3>5. IsFiniteSet(made \ {All})
      BY FS_Subset DEF CountersInv
    <3>6. \A x \in (made \ {All}) \cup {k} : f[x] \in Nat
      BY <1>2 DEF TotalsTypeOK, SeriesTypeOK, RowKeys
    <3> HIDE DEF f
    <3>7. SumFunctionOnSet(f, made' \ {All}) = f[k] + SumFunctionOnSet(f, made \ {All})
      BY <3>4, <3>5, <3>6, SumAdd
    <3>8. SumFunctionOnSet(f, made \ {All}) \in Nat
      BY <3>5, <3>6, SumNat
    <3> QED
      BY <3>3, <3>7, <3>8
  <2> HIDE DEF f
  <2>4. SumFunctionOnSet(f, made' \ {All}) = SumFunctionOnSet(f, made \ {All})
    BY <2>2, <2>3
  <2> QED
    BY <2>1, <2>4 DEF f
<1>7. AllIsTheSum'
  BY <1>6 DEF AllIsTheSum
<1> QED
  BY <1>1, <1>4, <1>5, <1>7 DEF CountersInv

\* The end of a series: its row and the row of all methods grow alike.
LEMMA CountersAddSeries ==
    ASSUME TotalsTypeOK, CountersInv, AddSeries
    PROVE  CountersInv'
<1>1. /\ cur \in SumSeries /\ cur # None /\ cur \in answer /\ rest = <<>>
      /\ cur' = None /\ answer' = answer /\ view' = view /\ made' = made /\ pc' = pc
  BY DEF AddSeries, EndSeries, TotalsTypeOK, SeriesTypeOK
<1>2. cur.row \in Keys /\ cur.row # All /\ cur.values \in Seq(Nat \cup {NaN})
  BY <1>1, SumSeriesInv
<1>3. total = SumOfNumbers(cur.values) /\ total \in Nat
  <2>1. total = SumFunctionOnSet(cur.values, ReadOf(cur.values, rest))
    BY <1>1 DEF CountersInv
  <2>2. ReadOf(cur.values, rest) = Numbers(cur.values)
    BY <1>1, <1>2, ReadBeginEnd
  <2> QED
    BY <2>1, <2>2 DEF SumOfNumbers, TotalsTypeOK
<1>4. \A k \in RowKeys, c \in Counters : counts[k][c] \in Nat
  BY DEF TotalsTypeOK
<1>5. \A k \in RowKeys, c \in Counters :
         counts'[k][c] = counts[k][c] +
            (IF k \in Touched(cur) /\ c \in CountersOf(cur.result) THEN total ELSE 0)
  <2> SUFFICES ASSUME NEW k \in RowKeys, NEW c \in Counters
               PROVE  counts'[k][c] = counts[k][c] +
                         (IF k \in Touched(cur) /\ c \in CountersOf(cur.result) THEN total ELSE 0)
    OBVIOUS
  <2>1. counts'[k] = IF k \in Touched(cur) THEN Added(k) ELSE counts[k]
    BY DEF AddSeries
  <2>2. Added(k)[c] = counts[k][c] + (IF c \in CountersOf(cur.result) THEN total ELSE 0)
    BY DEF Added
  <2>3. counts[k][c] = counts[k][c] + 0
    BY <1>4
  <2> QED
    BY <2>1, <2>2, <2>3
<1>6. ASSUME NEW k \in RowKeys, NEW c \in Counters, k \in Keys \/ view = "methods"
      PROVE  counts'[k][c] = SumOf(k, c)'
  <2>1. counts[k][c] = SumOf(k, c)
    BY <1>6 DEF CountersInv
  <2>2. SumOf(k, c)' = SumOf(k, c) +
           (IF (k = All \/ k = cur.row) /\ c \in CountersOf(cur.result) THEN total ELSE 0)
    BY <1>3, EndedAdds DEF CountersInv
  <2>3. k \in Touched(cur) <=> k = All \/ k = cur.row
    BY <1>6, TotalsAssumption DEF Touched
  <2> QED
    BY <1>5, <2>1, <2>2, <2>3
<1>7. view = "rows" => counts'[All] = Zero
  BY <1>2 DEF AddSeries, Touched, CountersInv, RowKeys
<1>8. ASSUME view = "methods", NEW c \in Counters
      PROVE  counts'[All][c] = SumFunctionOnSet([k \in Keys |-> counts'[k][c]], made \ {All})
  <2> DEFINE f == [k \in Keys |-> counts[k][c]]
             g == [k \in Keys |-> counts'[k][c]]
             some == (made \ {All}) \ {cur.row}
             d == IF c \in CountersOf(cur.result) THEN total ELSE 0
  <2>1. IsFiniteSet(made \ {All}) /\ IsFiniteSet(some)
    BY FS_Subset DEF CountersInv
  <2>2. made \ {All} \subseteq Keys /\ cur.row \in made \ {All}
    BY <1>1 DEF CountersInv, TotalsTypeOK, SeriesTypeOK, RowKeys
  <2>3. d \in Nat
    BY <1>3
  <2>4. \A k \in Keys : f[k] \in Nat /\ g[k] \in Nat
    BY <1>4, <1>5, <2>3 DEF RowKeys
  <2>5. g[cur.row] = f[cur.row] + d /\ counts'[All][c] = counts[All][c] + d
    BY <1>2, <1>5, <1>8 DEF Touched, RowKeys
  <2>6. \A k \in some : g[k] = f[k]
    BY <1>4, <1>5, <2>2 DEF Touched, RowKeys
  <2>7. counts[All][c] = SumFunctionOnSet(f, made \ {All})
    BY <1>8 DEF CountersInv, AllIsTheSum
  <2>8. SumFunctionOnSet(f, some) = SumFunctionOnSet(g, some)
    <3> HIDE DEF f, g, some
    <3> QED
      BY <2>1, <2>6, SumAgree
  <2>9. SumFunctionOnSet(f, some) \in Nat
    <3>1. \A k \in some : f[k] \in Nat
      BY <2>2, <2>4
    <3> HIDE DEF f, some
    <3> QED
      BY <2>1, <3>1, SumNat
  <2>10. /\ SumFunctionOnSet(f, made \ {All}) = f[cur.row] + SumFunctionOnSet(f, some)
         /\ SumFunctionOnSet(g, made \ {All}) = g[cur.row] + SumFunctionOnSet(g, some)
    <3>1. \A k \in made \ {All} : f[k] \in Nat /\ g[k] \in Nat
      BY <2>2, <2>4
    <3> HIDE DEF f, g
    <3> QED
      BY <2>1, <2>2, <3>1, SumRemove
  <2>11. f[cur.row] \in Nat
    BY <1>2, <2>4
  <2>12. counts'[All][c] = SumFunctionOnSet(g, made \ {All})
    <3> HIDE DEF f, g, some, d
    <3> QED
      BY <2>3, <2>5, <2>7, <2>8, <2>9, <2>10, <2>11
  <2> QED
    BY <2>12
<1>9. AllIsTheSum'
  BY <1>1, <1>8 DEF AllIsTheSum
<1> QED
  BY <1>1, <1>6, <1>7, <1>9 DEF CountersInv

\* A series is reached: what is left of it is all of it.
LEMMA CountersReach ==
    ASSUME TotalsTypeOK, CountersInv, TotalsTypeOK', NEW s \in SumSeries, ReachSum(s)
    PROVE  CountersInv'
<1>1. /\ pc = "reading" /\ pc' = pc /\ cur = None /\ cur' = s /\ rest' = s.values
      /\ answer' = answer \cup {s} /\ made' = made \cup {s.row}
      /\ total' = 0 /\ counts' = counts /\ view' = view
      /\ \A t \in answer : s.row # t.row \/ s.result # t.result
  BY DEF ReachSum, ReachSeries, FreshSum
<1>2. s # None /\ s.row \in Keys /\ s.row # All /\ s.values \in Seq(Nat \cup {NaN})
  BY SumSeriesInv
<1>3. s \notin answer /\ None \notin answer
  BY <1>1, SumSeriesInv DEF TotalsTypeOK, SeriesTypeOK
<1>4. Ended' = Ended
  BY <1>1, <1>3 DEF Ended
<1>5. IsFiniteSet(answer)' /\ IsFiniteSet(made)'
  BY <1>1, FS_AddElement DEF CountersInv
<1>6. /\ IsRestOf(rest, cur.values)'
      /\ total' = SumFunctionOnSet(cur.values, ReadOf(cur.values, rest))'
  BY <1>1, <1>2, ReadBeginEnd, SumEmpty
<1>7. made' \ {All} = {t.row : t \in answer'} /\ (All \in made' => view' = "methods")
  <2>1. made \ {All} = {t.row : t \in answer} /\ (All \in made => view = "methods")
    BY DEF CountersInv
  <2>2. {t.row : t \in answer \cup {s}} = {t.row : t \in answer} \cup {s.row}
    OBVIOUS
  <2>3. made' \ {All} = (made \ {All}) \cup {s.row}
    BY <1>1, <1>2
  <2>4. {t.row : t \in answer'} = {t.row : t \in answer} \cup {s.row}
    BY <1>1, <2>2
  <2>5. All \in made' => view' = "methods"
    BY <1>1, <1>2, <2>1
  <2> QED
    BY <2>1, <2>3, <2>4, <2>5
<1>8. CASE s.row \in made
  <2>1. made' \ {All} = made \ {All}
    BY <1>1, <1>8
  <2> QED
    BY <1>1, <1>4, <1>5, <1>6, <1>7, <2>1, CountersKept
<1>9. CASE s.row \notin made
  <2>1. \A t \in answer : t.row # s.row
    BY <1>2, <1>9 DEF CountersInv
  <2>2. \E k \in Keys : made' = made \cup {k} /\ k \notin made /\ \A t \in answer : t.row # k
    BY <1>1, <1>2, <1>9, <2>1
  <2> QED
    BY <1>1, <1>4, <1>5, <1>6, <1>7, <2>2, CountersKept
<1> QED
  BY <1>8, <1>9

\* A sample is read.
LEMMA CountersRead ==
    ASSUME TotalsTypeOK, CountersInv, TotalsTypeOK', AddCount
    PROVE  CountersInv'
<1>1. /\ cur # None /\ rest # <<>> /\ rest' = Tail(rest) /\ total' = total + CountOf(Head(rest))
      /\ pc' = pc /\ cur' = cur /\ answer' = answer /\ made' = made
      /\ counts' = counts /\ view' = view
  BY DEF AddCount, ReadSample
<1>2. cur \in SumSeries /\ cur.values \in Seq(Nat \cup {NaN}) /\ rest \in Seq(Nat \cup {NaN})
  BY <1>1, SumSeriesInv DEF TotalsTypeOK, SeriesTypeOK
<1>3. IsRestOf(rest, cur.values) /\ total = SumFunctionOnSet(cur.values, ReadOf(cur.values, rest))
  BY <1>1 DEF CountersInv
<1>4. Head(rest) \in Nat \cup {NaN} /\ IsRestOf(Tail(rest), cur.values)
  BY <1>1, <1>2, <1>3, ReadOne
<1>5. total + CountOf(Head(rest)) = SumFunctionOnSet(cur.values, ReadOf(cur.values, Tail(rest)))
  <2>1. CASE Head(rest) = NaN
    <3>1. CountOf(Head(rest)) = 0 /\ total \in Nat
      BY <2>1, SeriesAssumption DEF CountOf, TotalsTypeOK
    <3>2. ReadOf(cur.values, Tail(rest)) = ReadOf(cur.values, rest)
      BY <1>1, <1>2, <1>3, <2>1, ReadOne
    <3> QED
      BY <1>3, <3>1, <3>2
  <2>2. CASE Head(rest) # NaN
    <3>1. CountOf(Head(rest)) = Head(rest)
      BY <1>4, <2>2 DEF CountOf
    <3>2. SumFunctionOnSet(cur.values, ReadOf(cur.values, Tail(rest)))
             = SumFunctionOnSet(cur.values, ReadOf(cur.values, rest)) + Head(rest)
      BY <1>1, <1>2, <1>3, <2>2, ReadAdds
    <3> QED
      BY <1>3, <3>1, <3>2
  <2> QED
    BY <2>1, <2>2
<1>6. IsRestOf(rest, cur.values)' /\ total' = SumFunctionOnSet(cur.values, ReadOf(cur.values, rest))'
  BY <1>1, <1>4, <1>5
<1>7. Ended' = Ended
  BY <1>1 DEF Ended
<1>8. /\ IsFiniteSet(answer)' /\ IsFiniteSet(made)'
      /\ pc' = "idle" => answer' = {} /\ made' = {} /\ cur' = None /\ view' = "rows"
      /\ All \in made' => view' = "methods"
      /\ made' \ {All} = {s.row : s \in answer'}
      /\ made' \ {All} = made \ {All}
  BY <1>1 DEF CountersInv
<1> QED
  BY <1>1, <1>6, <1>7, <1>8, CountersKept

\* The other steps read nothing.
LEMMA CountersNext == TotalsTypeOK /\ TotalsTypeOK' /\ CountersInv /\ [TotalsNext]_totalsVars => CountersInv'
<1> SUFFICES ASSUME TotalsTypeOK, TotalsTypeOK', CountersInv, [TotalsNext]_totalsVars
             PROVE  CountersInv'
  OBVIOUS
<1>1. ASSUME NEW shape \in Views, AskCounters(shape) PROVE CountersInv'
  <2>1. /\ pc = "idle" /\ pc' = "reading" /\ view' = shape
        /\ made' = (IF shape = "methods" THEN {All} ELSE {})
        /\ answer' = answer /\ cur' = cur /\ rest' = rest /\ total' = total /\ counts' = counts
    BY <1>1 DEF AskCounters
  <2>2. answer = {} /\ made = {} /\ cur = None /\ view = "rows"
    BY <2>1 DEF CountersInv
  <2>3. Ended' = Ended /\ Ended = {}
    BY <2>1, <2>2 DEF Ended
  <2>4. IsFiniteSet(made')
    BY <2>1, FS_EmptySet, FS_Singleton
  <2>5. IsFiniteSet(answer)' /\ made' \ {All} = {s.row : s \in answer'} /\ made' \ {All} = made \ {All}
    BY <2>1, <2>2 DEF CountersInv
  <2> QED
    BY <2>1, <2>2, <2>3, <2>4, <2>5, CountersKept
<1>2. ASSUME NEW s \in SumSeries, ReachSum(s) PROVE CountersInv'
  BY <1>2, CountersReach
<1>3. CASE AddCount
  BY <1>3, CountersRead
<1>4. CASE AddSeries
  BY <1>4, CountersAddSeries
<1>5. CASE ShowCounters
  <2>1. /\ pc' = "shown" /\ cur = None
        /\ answer' = answer /\ cur' = cur /\ rest' = rest /\ made' = made
        /\ total' = total /\ counts' = counts /\ view' = view
    BY <1>5 DEF ShowCounters, EndAnswer
  <2>2. Ended' = Ended
    BY <2>1 DEF Ended
  <2>3. /\ IsFiniteSet(answer)' /\ IsFiniteSet(made)'
        /\ All \in made' => view' = "methods"
        /\ made' \ {All} = {s.row : s \in answer'}
    BY <2>1 DEF CountersInv
  <2> QED
    BY <2>1, <2>2, <2>3, CountersKept
<1>6. CASE ForgetCounters
  <2>1. /\ pc' = "idle" /\ answer' = {} /\ cur' = None /\ rest' = <<>> /\ made' = {}
        /\ view' = "rows" /\ counts' = [k \in RowKeys |-> Zero]
    BY <1>6 DEF ForgetCounters, Forget
  <2>2. Ended' = {}
    BY <2>1 DEF Ended
  <2>3. ASSUME NEW k \in RowKeys, NEW c \in Counters PROVE SumOf(k, c)' = 0 /\ counts'[k][c] = 0
    <3>1. SeriesFor(k, c)' = {}
      BY <2>2 DEF SeriesFor
    <3> QED
      BY <2>1, <3>1, SumEmpty DEF SumOf, Zero
  <2>4. IsFiniteSet(answer') /\ IsFiniteSet(made') /\ counts'[All] = Zero
    BY <2>1, FS_EmptySet DEF RowKeys
  <2> QED
    BY <2>1, <2>3, <2>4 DEF CountersInv, AllIsTheSum
<1>7. CASE UNCHANGED totalsVars
  BY <1>7 DEF totalsVars, CountersInv, AllIsTheSum, SumOf, SeriesFor, Ended, Counted
<1> QED
  BY <1>1, <1>2, <1>3, <1>4, <1>5, <1>6, <1>7 DEF TotalsNext

\* Whatever the order of the series, every counter of a row is the sum of the samples
\* it counts, and the row of all methods is the sum of the methods' rows.
THEOREM TotalsCountersFit == TotalsSpec => []CountersFit
<1>1. TotalsTypeOK /\ CountersInv => CountersFit
  <2> SUFFICES ASSUME TotalsTypeOK, CountersInv PROVE CountersFit
    OBVIOUS
  <2>1. ASSUME NEW k \in made PROVE counts[k] = [c \in Counters |-> SumOf(k, c)]
    <3>1. k \in RowKeys /\ (k \in Keys \/ view = "methods")
      BY <2>1 DEF TotalsTypeOK, SeriesTypeOK, RowKeys, CountersInv
    <3>2. \A c \in Counters : counts[k][c] = SumOf(k, c)
      BY <3>1 DEF CountersInv
    <3>3. counts[k] \in [Counters -> Nat]
      BY <3>1 DEF TotalsTypeOK
    <3> QED
      BY <3>2, <3>3
  <2>2. CountersAreSums
    BY <2>1 DEF CountersAreSums, CountersInv
  <2> QED
    BY <2>2 DEF CountersFit, CountersInv
<1> QED
  BY <1>1, CountersInit, CountersNext, TotalsTypes, PTL DEF TotalsSpec

-----------------------------------------------------------------------------
(* The means *)

\* Type correctness of the mean latencies: no mean is divided by zero, also that
\* of a window of gaps or of no series at all.
THEOREM MeansTypes == MeansSpec => []MeansTypeOK
<1>0. NoMean \in Nat \X (Nat \ {0}) /\ <<0, 0>> \in Nat \X Nat
  BY DEF NoMean
<1>1. MeansInit => MeansTypeOK
  BY <1>0, EmptySeq DEF MeansInit, NoSeries, MeansTypeOK, SeriesTypeOK
<1>2. MeansTypeOK /\ [MeansNext]_meansVars => MeansTypeOK'
  <2> SUFFICES ASSUME MeansTypeOK, [MeansNext]_meansVars PROVE MeansTypeOK'
    OBVIOUS
  <2>1. CASE AskMeans
    BY <2>1 DEF AskMeans, MeansTypeOK, SeriesTypeOK
  <2>2. ASSUME NEW s \in AvgSeries, ReachAvg(s) PROVE MeansTypeOK'
    <3>1. s.values \in Seq(Nat \cup {NaN}) /\ s.row \in Keys
      BY SeriesAssumption DEF AvgSeries
    <3> QED
      BY <2>2, <3>1 DEF ReachAvg, ReachSeries, MeansTypeOK, SeriesTypeOK
  <2>3. ASSUME ReadSample
        PROVE  Head(rest) \in Nat \cup {NaN} /\ Tail(rest) \in Seq(Nat \cup {NaN})
    BY <2>3, HeadTailProperties DEF ReadSample, MeansTypeOK, SeriesTypeOK
  <2>4. CASE SkipGap
    BY <2>3, <2>4 DEF SkipGap, ReadSample, MeansTypeOK, SeriesTypeOK
  <2>5. CASE AddLatency
    <3>1. Head(rest) \in Nat /\ Tail(rest) \in Seq(Nat \cup {NaN})
      BY <2>3, <2>5 DEF AddLatency
    <3>2. sum' \in Nat /\ n' \in Nat
      BY <2>5, <3>1 DEF AddLatency, MeansTypeOK
    <3>3. pool[1] \in Nat /\ pool[2] \in Nat
      BY DEF MeansTypeOK
    <3>4. pool[1] + Head(rest) \in Nat /\ pool[2] + 1 \in Nat
      BY <3>1, <3>3
    <3>5. pool' \in Nat \X Nat
      BY <2>5, <3>4 DEF AddLatency, AllAdded
    <3> QED
      BY <2>5, <3>1, <3>2, <3>5 DEF AddLatency, ReadSample, MeansTypeOK, SeriesTypeOK
  <2>6. CASE KeepMean
    <3>1. MeanOf(sum, n) \in Nat \X (Nat \ {0})
      BY DEF MeanOf, NoMean, MeansTypeOK
    <3>2. mean' \in [Keys -> Nat \X (Nat \ {0})]
      BY <2>6, <3>1 DEF KeepMean, MeansTypeOK
    <3> QED
      BY <2>6, <3>2 DEF KeepMean, EndSeries, MeansTypeOK, SeriesTypeOK
  <2>7. CASE ShowMeans
    <3>1. AllMean \in Nat \X (Nat \ {0})
      BY DEF AllMean, NoMean, MeansTypeOK
    <3> QED
      BY <2>7, <3>1 DEF ShowMeans, EndAnswer, MeansTypeOK, SeriesTypeOK
  <2>8. CASE ForgetMeans
    BY <1>0, <2>8, EmptySeq DEF ForgetMeans, Forget, MeansTypeOK, SeriesTypeOK
  <2>9. CASE UNCHANGED meansVars
    BY <2>9 DEF meansVars, MeansTypeOK, SeriesTypeOK
  <2> QED
    BY <2>1, <2>2, <2>4, <2>5, <2>6, <2>7, <2>8, <2>9 DEF MeansNext
<1> QED
  BY <1>1, <1>2, PTL DEF MeansSpec

\* A mean is that of the latest series of its row that has ended, and the pool
\* holds what was read.
MeansInv ==
    /\ IsFiniteSet(answer)
    /\ cur # None => IsRestOf(rest, cur.values)
    /\ sum = IF cur = None THEN 0 ELSE SumFunctionOnSet(cur.values, ReadOf(cur.values, rest))
    /\ n = IF cur = None THEN 0 ELSE Cardinality(ReadOf(cur.values, rest))
    /\ made = {s.row : s \in answer}
    /\ \A k \in {s.row : s \in Ended} :
          \E s \in Ended : s.row = k /\ mean[k] = MeanOf(SumOfNumbers(s.values), Cardinality(Numbers(s.values)))
    /\ ~byResult => \A s, t \in answer : s.row = t.row => s = t
    /\ pool[1] = Pooled(Ended)[1] + sum
    /\ pool[2] = Pooled(Ended)[2] + n
    /\ pc = "idle" => answer = {} /\ cur = None
    /\ pc = "shown" => cur = None /\ allMean = AllMean

\* The series of an answer.
LEMMA AvgSeriesInv ==
    ASSUME NEW s \in AvgSeries
    PROVE  /\ s # None
           /\ s.row \in Keys
           /\ s.values \in Seq(Nat \cup {NaN})
           /\ SumOfNumbers(s.values) \in Nat /\ Cardinality(Numbers(s.values)) \in Nat
<1>1. s.row \in Keys /\ s.result \in Results /\ s.values \in Windows
  BY DEF AvgSeries
<1>2. s = [row |-> s.row, result |-> s.result, values |-> s.values]
  BY DEF AvgSeries
<1>3. s # None
  BY <1>1, <1>2, MeansAssumption
<1>4. s.values \in Seq(Nat \cup {NaN})
  BY <1>1, SeriesAssumption
<1> QED
  BY <1>1, <1>3, <1>4, NumbersInv

\* Samples pooled over finitely many series, and over one more.
LEMMA PooledInv ==
    ASSUME NEW some \in SUBSET AvgSeries, IsFiniteSet(some)
    PROVE  /\ Pooled(some) \in Nat \X Nat
           /\ \A s \in AvgSeries \ some :
                 /\ Pooled(some \cup {s})[1] = Pooled(some)[1] + SumOfNumbers(s.values)
                 /\ Pooled(some \cup {s})[2] = Pooled(some)[2] + Cardinality(Numbers(s.values))
<1> DEFINE f == [s \in AvgSeries |-> SumOfNumbers(s.values)]
           g == [s \in AvgSeries |-> Cardinality(Numbers(s.values))]
<1>1. \A s \in AvgSeries : f[s] \in Nat /\ g[s] \in Nat
  BY AvgSeriesInv
<1>2. \A s \in AvgSeries : f[s] = SumOfNumbers(s.values) /\ g[s] = Cardinality(Numbers(s.values))
  OBVIOUS
<1>3. \A x : Pooled(x)[1] = SumFunctionOnSet(f, x) /\ Pooled(x)[2] = SumFunctionOnSet(g, x)
  BY DEF Pooled
<1>4. Pooled(some) = <<SumFunctionOnSet(f, some), SumFunctionOnSet(g, some)>>
  BY DEF Pooled
<1> HIDE DEF f, g
<1>5. SumFunctionOnSet(f, some) \in Nat /\ SumFunctionOnSet(g, some) \in Nat
  BY <1>1, SumNat
<1>6. ASSUME NEW s \in AvgSeries \ some
      PROVE  /\ Pooled(some \cup {s})[1] = Pooled(some)[1] + SumOfNumbers(s.values)
             /\ Pooled(some \cup {s})[2] = Pooled(some)[2] + Cardinality(Numbers(s.values))
  <2>1. /\ SumFunctionOnSet(f, some \cup {s}) = f[s] + SumFunctionOnSet(f, some)
        /\ SumFunctionOnSet(g, some \cup {s}) = g[s] + SumFunctionOnSet(g, some)
    BY <1>1, SumAdd
  <2> QED
    BY <1>1, <1>2, <1>3, <1>5, <2>1
<1> QED
  BY <1>4, <1>5, <1>6

\* Samples of no series, and of one.
LEMMA PooledFew ==
    /\ Pooled({}) = <<0, 0>>
    /\ \A s \in AvgSeries : Pooled({s}) = <<SumOfNumbers(s.values), Cardinality(Numbers(s.values))>>
<1>1. Pooled({}) = <<0, 0>>
  BY SumEmpty DEF Pooled
<1>2. ASSUME NEW s \in AvgSeries
      PROVE  Pooled({s}) = <<SumOfNumbers(s.values), Cardinality(Numbers(s.values))>>
  <2> DEFINE f == [t \in AvgSeries |-> SumOfNumbers(t.values)]
             g == [t \in AvgSeries |-> Cardinality(Numbers(t.values))]
  <2>1. f[s] = SumOfNumbers(s.values) /\ g[s] = Cardinality(Numbers(s.values))
    OBVIOUS
  <2>2. f[s] \in Nat /\ g[s] \in Nat
    BY AvgSeriesInv
  <2>3. Pooled({s}) = <<SumFunctionOnSet(f, {s}), SumFunctionOnSet(g, {s})>>
    BY DEF Pooled
  <2> HIDE DEF f, g
  <2>4. SumFunctionOnSet(f, {s}) = f[s] /\ SumFunctionOnSet(g, {s}) = g[s]
    BY <2>2, SumOne
  <2> QED
    BY <2>1, <2>3, <2>4
<1> QED
  BY <1>1, <1>2

\* A number that is read is pooled too.
LEMMA MeansAddLatency ==
    ASSUME MeansTypeOK, MeansInv, AddLatency
    PROVE  MeansInv'
<1>1. /\ cur # None /\ rest # <<>> /\ Head(rest) # NaN /\ rest' = Tail(rest)
      /\ sum' = sum + Head(rest) /\ n' = n + 1
      /\ pool' = <<pool[1] + Head(rest), pool[2] + 1>>
      /\ pc' = pc /\ cur' = cur /\ answer' = answer /\ made' = made /\ mean' = mean
      /\ byResult' = byResult /\ allMean' = allMean
  BY DEF AddLatency, ReadSample, AllAdded
<1>2. cur.values \in Seq(Nat \cup {NaN}) /\ rest \in Seq(Nat \cup {NaN}) /\ pool \in Nat \X Nat
  BY <1>1, AvgSeriesInv DEF MeansTypeOK, SeriesTypeOK
<1>3. IsRestOf(rest, cur.values)
  BY <1>1 DEF MeansInv
<1>4. Head(rest) \in Nat /\ IsRestOf(Tail(rest), cur.values)
  BY <1>1, <1>2, <1>3, ReadOne
<1>5. /\ sum' = SumFunctionOnSet(cur.values, ReadOf(cur.values, Tail(rest)))
      /\ n' = Cardinality(ReadOf(cur.values, Tail(rest)))
  BY <1>1, <1>2, <1>3, ReadAdds DEF MeansInv
<1>6. Ended' = Ended /\ Ended \in SUBSET AvgSeries /\ IsFiniteSet(Ended)
  BY <1>1, FS_Subset DEF Ended, MeansTypeOK, SeriesTypeOK, MeansInv
<1>7. Pooled(Ended) \in Nat \X Nat
  BY <1>6, PooledInv
<1>8. pool[1] = Pooled(Ended)[1] + sum /\ pool[2] = Pooled(Ended)[2] + n /\ sum \in Nat /\ n \in Nat
  BY DEF MeansInv, MeansTypeOK
<1>9. Pooled(Ended)' = Pooled(Ended)
  BY <1>6
<1>10. pool'[1] = Pooled(Ended)'[1] + sum' /\ pool'[2] = Pooled(Ended)'[2] + n'
  <2>1. pool'[1] = pool[1] + Head(rest) /\ pool'[2] = pool[2] + 1
    BY <1>1
  <2> DEFINE p == Pooled(Ended)
  <2>2. p[1] \in Nat /\ p[2] \in Nat
    BY <1>7
  <2> HIDE DEF p
  <2>3. (p[1] + sum) + Head(rest) = p[1] + (sum + Head(rest)) /\ (p[2] + n) + 1 = p[2] + (n + 1)
    BY <1>4, <1>8, <2>2
  <2> QED
    BY <1>1, <1>8, <1>9, <2>1, <2>3 DEF p
<1>11. pc # "shown" /\ pc # "idle"
  BY <1>1 DEF MeansInv
<1>12. \A k \in {s.row : s \in Ended'} :
          \E s \in Ended' : s.row = k /\ mean'[k] = MeanOf(SumOfNumbers(s.values), Cardinality(Numbers(s.values)))
  BY <1>1, <1>6 DEF MeansInv
<1>13. sum' = (IF cur' = None THEN 0 ELSE SumFunctionOnSet(cur.values, ReadOf(cur.values, rest))')
  BY <1>1, <1>5
<1>14. n' = (IF cur' = None THEN 0 ELSE Cardinality(ReadOf(cur.values, rest))')
  BY <1>1, <1>5
<1> QED
  BY <1>1, <1>4, <1>10, <1>11, <1>12, <1>13, <1>14 DEF MeansInv

\* A series is reached: nothing of it was read.
LEMMA MeansReach ==
    ASSUME MeansTypeOK, MeansInv, NEW s \in AvgSeries, ReachAvg(s)
    PROVE  MeansInv'
<1>1. /\ pc = "reading" /\ pc' = pc /\ cur = None /\ cur' = s /\ rest' = s.values
      /\ answer' = answer \cup {s} /\ made' = made \cup {s.row}
      /\ sum' = 0 /\ n' = 0 /\ mean' = mean /\ pool' = pool /\ byResult' = byResult
      /\ FreshAvg(s)
  BY DEF ReachAvg, ReachSeries
<1>2. s # None /\ s.values \in Seq(Nat \cup {NaN})
  BY AvgSeriesInv
<1>3. s \notin answer /\ None \notin answer
  BY <1>1, AvgSeriesInv DEF FreshAvg, MeansTypeOK, SeriesTypeOK
<1>4. Ended' = Ended
  BY <1>1, <1>3 DEF Ended
<1>5. IsFiniteSet(answer')
  BY <1>1, FS_AddElement DEF MeansInv
<1>6. IsRestOf(rest', cur'.values) /\ ReadOf(cur'.values, rest') = {}
  BY <1>1, <1>2, ReadBeginEnd
<1>7. sum' = SumFunctionOnSet(cur'.values, ReadOf(cur'.values, rest'))
      /\ n' = Cardinality(ReadOf(cur'.values, rest'))
  BY <1>1, <1>6, SumEmpty, FS_EmptySet
<1>8. made' = {t.row : t \in answer'}
  <2>1. made = {t.row : t \in answer}
    BY DEF MeansInv
  <2>2. {t.row : t \in answer \cup {s}} = {t.row : t \in answer} \cup {s.row}
    OBVIOUS
  <2> QED
    BY <1>1, <2>1, <2>2
<1>9. ~byResult => \A t, u \in answer' : t.row = u.row => t = u
  BY <1>1 DEF FreshAvg, MeansInv
<1>10. pool'[1] = Pooled(Ended)'[1] + sum' /\ pool'[2] = Pooled(Ended)'[2] + n'
  <2>1. sum = 0 /\ n = 0
    BY <1>1 DEF MeansInv
  <2>2. Pooled(Ended)' = Pooled(Ended)
    BY <1>4
  <2> QED
    BY <1>1, <2>1, <2>2 DEF MeansInv
<1>11. \A k \in {t.row : t \in Ended'} :
          \E t \in Ended' : t.row = k /\ mean'[k] = MeanOf(SumOfNumbers(t.values), Cardinality(Numbers(t.values)))
  BY <1>1, <1>4 DEF MeansInv
<1>12. IsRestOf(rest, cur.values)'
  BY <1>6
<1>13. sum' = (IF cur' = None THEN 0 ELSE SumFunctionOnSet(cur.values, ReadOf(cur.values, rest))')
       /\ n' = (IF cur' = None THEN 0 ELSE Cardinality(ReadOf(cur.values, rest))')
  BY <1>1, <1>2, <1>7
<1> QED
  BY <1>1, <1>5, <1>8, <1>9, <1>10, <1>11, <1>12, <1>13 DEF MeansInv

\* A gap is read: what counts stays.
LEMMA MeansSkipGap ==
    ASSUME MeansTypeOK, MeansInv, SkipGap
    PROVE  MeansInv'
<1>1. /\ cur # None /\ rest # <<>> /\ Head(rest) = NaN /\ rest' = Tail(rest)
      /\ sum' = sum /\ n' = n /\ pool' = pool /\ mean' = mean /\ made' = made
      /\ pc' = pc /\ cur' = cur /\ answer' = answer /\ byResult' = byResult /\ allMean' = allMean
  BY DEF SkipGap, ReadSample
<1>2. cur.values \in Seq(Nat \cup {NaN}) /\ rest \in Seq(Nat \cup {NaN})
  BY <1>1, AvgSeriesInv DEF MeansTypeOK, SeriesTypeOK
<1>3. /\ IsRestOf(Tail(rest), cur.values)
      /\ ReadOf(cur.values, Tail(rest)) = ReadOf(cur.values, rest)
  BY <1>1, <1>2, ReadOne DEF MeansInv
<1>4. Ended' = Ended
  BY <1>1 DEF Ended
<1>5. /\ IsRestOf(rest, cur.values)'
      /\ sum' = (IF cur' = None THEN 0 ELSE SumFunctionOnSet(cur.values, ReadOf(cur.values, rest))')
      /\ n' = (IF cur' = None THEN 0 ELSE Cardinality(ReadOf(cur.values, rest))')
  BY <1>1, <1>3 DEF MeansInv
<1>6. Pooled(Ended)' = Pooled(Ended)
  BY <1>4
<1>7. pc # "shown" /\ pc # "idle"
  BY <1>1 DEF MeansInv
<1> QED
  BY <1>1, <1>4, <1>5, <1>6, <1>7 DEF MeansInv

\* The end of a series: its mean is kept, its samples stay in the pool.
LEMMA MeansKeepMean ==
    ASSUME MeansTypeOK, MeansInv, KeepMean
    PROVE  MeansInv'
<1>1. /\ cur # None /\ rest = <<>> /\ cur' = None /\ pc' = pc
      /\ answer' = answer /\ made' = made /\ pool' = pool /\ byResult' = byResult /\ allMean' = allMean
      /\ mean' = [mean EXCEPT ![cur.row] = MeanOf(sum, n)] /\ sum' = 0 /\ n' = 0
  BY DEF KeepMean, EndSeries
<1>2. cur \in AvgSeries /\ cur \in answer /\ answer \in SUBSET AvgSeries
  BY <1>1 DEF MeansTypeOK, SeriesTypeOK
<1>3. cur.values \in Seq(Nat \cup {NaN}) /\ cur.row \in Keys /\ None \notin answer
  BY <1>2, AvgSeriesInv
<1>4. sum = SumOfNumbers(cur.values) /\ n = Cardinality(Numbers(cur.values))
  BY <1>1, <1>3, ReadBeginEnd DEF MeansInv, SumOfNumbers
<1>5. Ended' = Ended \cup {cur} /\ cur \notin Ended
  BY <1>1, <1>2, <1>3 DEF Ended
<1>6. Ended \in SUBSET AvgSeries /\ IsFiniteSet(Ended)
  BY <1>2, FS_Subset DEF Ended, MeansInv
<1>7. pool'[1] = Pooled(Ended)'[1] + sum' /\ pool'[2] = Pooled(Ended)'[2] + n'
  <2>1. /\ Pooled(Ended \cup {cur})[1] = Pooled(Ended)[1] + sum
        /\ Pooled(Ended \cup {cur})[2] = Pooled(Ended)[2] + n
    BY <1>2, <1>4, <1>5, <1>6, PooledInv
  <2>2. Pooled(Ended)' = Pooled(Ended \cup {cur})
    BY <1>5
  <2>3. pool[1] = Pooled(Ended)[1] + sum /\ pool[2] = Pooled(Ended)[2] + n
    BY DEF MeansInv
  <2>4. pool[1] \in Nat /\ pool[2] \in Nat
    BY DEF MeansTypeOK
  <2> QED
    BY <1>1, <2>1, <2>2, <2>3, <2>4
<1>8. ASSUME NEW k \in {s.row : s \in Ended'}
      PROVE  \E s \in Ended' :
                s.row = k /\ mean'[k] = MeanOf(SumOfNumbers(s.values), Cardinality(Numbers(s.values)))
  <2>1. CASE k = cur.row
    <3>1. mean'[k] = MeanOf(sum, n)
      BY <1>1, <1>3, <2>1 DEF MeansTypeOK
    <3> QED
      BY <1>4, <1>5, <2>1, <3>1
  <2>2. CASE k # cur.row
    <3>1. k \in {s.row : s \in Ended} /\ mean'[k] = mean[k]
      <4>1. k \in {s.row : s \in Ended}
        BY <1>5, <1>8, <2>2
      <4>2. k \in Keys
        BY <1>6, <4>1, AvgSeriesInv
      <4> QED
        BY <1>1, <2>2, <4>1, <4>2 DEF MeansTypeOK
    <3>2. PICK s \in Ended :
             s.row = k /\ mean[k] = MeanOf(SumOfNumbers(s.values), Cardinality(Numbers(s.values)))
      BY <3>1 DEF MeansInv
    <3> QED
      BY <1>5, <3>1, <3>2
  <2> QED
    BY <2>1, <2>2
<1>9. pc # "shown" /\ pc # "idle"
  BY <1>1 DEF MeansInv
<1> QED
  BY <1>1, <1>7, <1>8, <1>9 DEF MeansInv

\* Nothing is read at first.
LEMMA MeansInitInv == MeansInit => MeansInv
<1> SUFFICES ASSUME MeansInit PROVE MeansInv
  OBVIOUS
<1>1. /\ pc = "idle" /\ answer = {} /\ cur = None /\ made = {} /\ sum = 0 /\ n = 0
      /\ pool = <<0, 0>>
  BY DEF MeansInit, NoSeries
<1>2. Ended = {}
  BY <1>1 DEF Ended
<1>3. pool[1] = Pooled(Ended)[1] + sum /\ pool[2] = Pooled(Ended)[2] + n
  BY <1>1, <1>2, PooledFew
<1> QED
  BY <1>1, <1>2, <1>3, FS_EmptySet DEF MeansInv

\* Every step of the loop keeps sums, means and pool together.
LEMMA MeansNextInv == MeansTypeOK /\ MeansInv /\ [MeansNext]_meansVars => MeansInv'
<1> SUFFICES ASSUME MeansTypeOK, MeansInv, [MeansNext]_meansVars PROVE MeansInv'
  OBVIOUS
<1>1. CASE AskMeans
  <2>1. /\ pc = "idle" /\ pc' = "reading" /\ answer' = answer /\ cur' = cur /\ rest' = rest
        /\ sum' = sum /\ n' = n /\ made' = made /\ mean' = mean /\ pool' = pool
    BY <1>1 DEF AskMeans
  <2>2. answer = {} /\ cur = None
    BY <2>1 DEF MeansInv
  <2>3. Ended' = Ended
    BY <2>1 DEF Ended
  <2>4. Pooled(Ended)' = Pooled(Ended)
    BY <2>3
  <2> QED
    BY <2>1, <2>2, <2>3, <2>4 DEF MeansInv
<1>2. ASSUME NEW s \in AvgSeries, ReachAvg(s) PROVE MeansInv'
  BY <1>2, MeansReach
<1>3. CASE SkipGap
  BY <1>3, MeansSkipGap
<1>4. CASE AddLatency
  BY <1>4, MeansAddLatency
<1>5. CASE KeepMean
  BY <1>5, MeansKeepMean
<1>6. CASE ShowMeans
  <2>1. /\ pc = "reading" /\ cur = None /\ pc' = "shown" /\ allMean' = AllMean
        /\ answer' = answer /\ cur' = cur /\ rest' = rest /\ made' = made
        /\ byResult' = byResult /\ sum' = sum /\ n' = n /\ mean' = mean /\ pool' = pool
    BY <1>6 DEF ShowMeans, EndAnswer
  <2>2. Ended' = Ended /\ AllMean' = AllMean
    BY <2>1 DEF Ended, AllMean
  <2>3. Pooled(Ended)' = Pooled(Ended)
    BY <2>2
  <2> QED
    BY <2>1, <2>2, <2>3 DEF MeansInv
<1>7. CASE ForgetMeans
  <2>1. /\ pc = "shown" /\ pc' = "idle" /\ answer' = {} /\ cur' = None /\ made' = {}
        /\ pool' = <<0, 0>> /\ sum' = sum /\ n' = n
    BY <1>7 DEF ForgetMeans, Forget
  <2>2. sum = 0 /\ n = 0
    BY <2>1 DEF MeansInv
  <2>3. Ended' = {}
    BY <2>1 DEF Ended
  <2>4. Pooled(Ended)' = <<0, 0>>
    BY <2>3, PooledFew
  <2>5. pool'[1] = Pooled(Ended)'[1] + sum' /\ pool'[2] = Pooled(Ended)'[2] + n'
    BY <2>1, <2>2, <2>4
  <2> QED
    BY <2>1, <2>2, <2>3, <2>5, FS_EmptySet DEF MeansInv
<1>8. CASE UNCHANGED meansVars
  BY <1>8 DEF meansVars, MeansInv, Ended, Pooled, AllMean
<1> QED
  BY <1>1, <1>2, <1>3, <1>4, <1>5, <1>6, <1>7, <1>8 DEF MeansNext

\* No mean mixes samples that do not belong together: the mean of a row is that of one
\* of its series, of its only one where the query groups by row, and the mean of all
\* methods that of every sample.
THEOREM MeansTrue == MeansSpec => []MeansAreTrue
<1>1. ASSUME MeansTypeOK, MeansInv, pc = "shown"
      PROVE  Ended = answer /\ cur = None /\ answer \in SUBSET AvgSeries
  <2>1. cur = None /\ answer \in SUBSET AvgSeries
    BY <1>1 DEF MeansInv, MeansTypeOK, SeriesTypeOK
  <2> QED
    BY <2>1, AvgSeriesInv DEF Ended
<1>2. ASSUME NEW s \in AvgSeries
      PROVE  IsMeanOf(MeanOf(SumOfNumbers(s.values), Cardinality(Numbers(s.values))), Pooled({s}))
  BY PooledFew DEF IsMeanOf, MeanOf, NoMean
<1>3. ASSUME MeansTypeOK, MeansInv, pc = "shown", NEW k \in made
      PROVE  \E s \in answer : s.row = k /\ IsMeanOf(mean[k], Pooled({s}))
  <2>1. k \in {s.row : s \in Ended}
    BY <1>1, <1>3 DEF MeansInv
  <2>2. PICK s \in Ended :
           s.row = k /\ mean[k] = MeanOf(SumOfNumbers(s.values), Cardinality(Numbers(s.values)))
    BY <1>3, <2>1 DEF MeansInv
  <2> QED
    BY <1>1, <1>2, <1>3, <2>2
<1>4. ASSUME MeansTypeOK, MeansInv, pc = "shown", ~byResult, NEW k \in made
      PROVE  RowIsAverage(k)
  <2>1. PICK s \in answer : s.row = k /\ IsMeanOf(mean[k], Pooled({s}))
    BY <1>3, <1>4
  <2>2. {t \in answer : t.row = k} = {s}
    BY <1>4, <2>1 DEF MeansInv
  <2> QED
    BY <2>1, <2>2 DEF RowIsAverage
<1>5. ASSUME MeansTypeOK, MeansInv, pc = "shown"
      PROVE  IsMeanOf(allMean, Pooled(answer))
  <2>1. sum = 0 /\ n = 0 /\ allMean = AllMean /\ IsFiniteSet(answer)
    BY <1>1, <1>5 DEF MeansInv
  <2>2. Pooled(answer) \in Nat \X Nat
    BY <1>1, <1>5, <2>1, PooledInv
  <2>3. pool \in Nat \X Nat /\ pool[1] = Pooled(answer)[1] + 0 /\ pool[2] = Pooled(answer)[2] + 0
    BY <1>1, <1>5, <2>1 DEF MeansInv, MeansTypeOK
  <2>4. pool = Pooled(answer)
    BY <2>2, <2>3
  <2> QED
    BY <2>1, <2>4 DEF AllMean, IsMeanOf, NoMean
<1>6. MeansTypeOK /\ MeansInv => MeansAreTrue
  BY <1>3, <1>4, <1>5
     DEF MeansAreTrue, MeanIsOfOneSeries, MeanIsAverageWhenGroupedByRow, AllIsAverage
<1> QED
  BY <1>6, MeansInitInv, MeansNextInv, MeansTypes, PTL DEF MeansSpec
=============================================================================
