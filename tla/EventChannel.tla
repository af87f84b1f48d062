----------------------------- MODULE EventChannel -----------------------------
(***************************************************************************)
(* What a controller may expect of the events it subscribed to, whatever   *)
(* the timers, requests and sockets behind it do (eventedhttp.ts): values  *)
(* reach it in the order they were reported; a report is left out only if  *)
(* the same value of the same event is what it will be told last anyway,   *)
(* if it unsubscribed meanwhile, or if the connection breaks.              *)
(***************************************************************************)
EXTENDS Naturals, Sequences

CONSTANTS Events, Values, NoValue

VARIABLES
  up,          \* the controller can be reached
  subscribed,  \* the events it asked for
  latest,      \* the value of each last reported since then
  owed,        \* reported, not told yet
  told         \* what it was told, in its order

vars == <<up, subscribed, latest, owed, told>>

Nothing == [e \in Events |-> NoValue]

Init == up = TRUE /\ subscribed = {} /\ latest = Nothing /\ owed = <<>> /\ told = <<>>

\* What of the reports is still subscribed to, in its order.
Wanted(reports) ==
  LET kept[n \in 0..Len(reports)] ==
        IF n = 0 THEN <<>>
        ELSE IF reports[n].event \in subscribed THEN Append(kept[n - 1], reports[n]) ELSE kept[n - 1]
  IN kept[Len(reports)]

Repeats(e, v) ==
  \E i \in 1..Len(owed) :
    /\ owed[i] = [event |-> e, value |-> v]
    /\ \A j \in i+1..Len(owed) : owed[j].event # e

Tell(reports) ==
  /\ owed' = <<>>
  /\ told' = told \o Wanted(reports)

\* A value is reported: it is owed, or repeats what is owed, or is told with all that is owed.
Report(e, v) ==
  LET reports == Append(owed, [event |-> e, value |-> v])
  IN /\ up
     /\ e \in subscribed
     /\ \/ owed' = reports /\ UNCHANGED told
        \/ Repeats(e, v) /\ UNCHANGED <<owed, told>>
        \/ Tell(reports)
     /\ latest' = [latest EXCEPT ![e] = v]
     /\ UNCHANGED <<up, subscribed>>

Deliver ==
  /\ up
  /\ Tell(owed)
  /\ UNCHANGED <<up, subscribed, latest>>

\* A new interest in an event, or none, forgets what was reported of it before.
Choose(interest, e) ==
  /\ up
  /\ subscribed' = interest
  /\ latest' = [latest EXCEPT ![e] = NoValue]
  /\ UNCHANGED <<up, owed, told>>

Subscribe(e)   == Choose(subscribed \cup {e}, e)
Unsubscribe(e) == Choose(subscribed \ {e}, e)

\* Nothing is promised once the connection broke, except that nothing more is told.
Break  == up /\ up' = FALSE /\ UNCHANGED <<latest, owed, told>> /\ subscribed' \in {subscribed, {}}
Broken ==
  /\ ~up
  /\ UNCHANGED <<up, told>>
  /\ subscribed' \in SUBSET Events
  /\ latest' \in [Events -> Values \cup {NoValue}]

Next ==
  \/ \E e \in Events, v \in Values : Report(e, v)
  \/ Deliver
  \/ \E e \in Events : Subscribe(e) \/ Unsubscribe(e)
  \/ Break
  \/ Broken

Spec == Init /\ [][Next]_vars

=============================================================================
