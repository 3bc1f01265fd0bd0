------------------------------- MODULE MCApp --------------------------------
(* A small instance of App for TLC: each kind of entry of the table once. *)
EXTENDS App

CONSTANTS u1, u2, l1, l2

MCTable     == {Login, DashboardPage, Group("configuration", {"template"})}
MCLogin     == <<"login">>
MCDashboard == <<"dashboard">>
MCWizard    == <<"configuration", "template">>
MCProgress  == <<"detail", "advanced">>
=============================================================================
