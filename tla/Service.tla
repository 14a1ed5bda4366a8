------------------------------- MODULE Service -------------------------------
(***************************************************************************)
(* What the client promises the application about its life: what works     *)
(* when, and which methods of the listener it may be called on.  Nothing   *)
(* works before NewClient or after Close, nothing starts twice, the three  *)
(* goroutines stop in order, and a client that could not be made only has  *)
(* a warning to deliver.  Client implements it.                            *)
(***************************************************************************)

VARIABLES
  life,       \* from NewClient to Close
  working,    \* goroutines of the client
  metered,    \* evaluations are counted and reported
  loaded,     \* the toggles were fetched
  released,   \* those who wait for the toggles
  listening   \* the method of the listener that is called, or "none"

serviceVars == <<life, working, metered, loaded, released, listening>>

Methods      == {"OnError", "OnWarning", "OnReady", "OnCount", "OnSent", "OnRegistered"}
MeterMethods == {"OnCount", "OnSent", "OnRegistered"}

Init ==
  /\ life = "starting" /\ working = {}
  /\ metered \in BOOLEAN
  /\ ~loaded /\ ~released
  /\ listening = "none"

\* The toggles are polled before NewClient returns.
Launch ==
  /\ life = "starting" /\ working = {}
  /\ working' = {"poller"}
  /\ UNCHANGED <<life, metered, loaded, released, listening>>

Open ==
  /\ life = "starting" /\ working = {"poller"}
  /\ life' = "running"
  /\ working' = {"poller", "loop"} \cup (IF metered THEN {"sender"} ELSE {})
  /\ UNCHANGED <<metered, loaded, released, listening>>

Fail ==
  /\ life = "starting" /\ working = {}
  /\ life' = "failed" /\ working' = {"loop"}
  /\ UNCHANGED <<metered, loaded, released, listening>>

Load ==
  /\ "poller" \in working
  /\ ~loaded /\ loaded' = TRUE
  /\ UNCHANGED <<life, working, metered, released, listening>>

\* The listener is called, for the first toggles once.
Tell(method) ==
  /\ "loop" \in working /\ listening = "none"
  /\ life = "failed" => method = "OnWarning"
  /\ method \in MeterMethods => metered
  /\ method = "OnSent" => "sender" \in working
  /\ method = "OnReady" => loaded /\ ~released
  /\ released' = (released \/ method = "OnReady")
  /\ listening' = method
  /\ UNCHANGED <<life, working, metered, loaded>>

Told ==
  /\ listening # "none" /\ listening' = "none"
  /\ UNCHANGED <<life, working, metered, loaded, released>>

Close ==
  /\ life = "running" /\ life' = "closing"
  /\ UNCHANGED <<working, metered, loaded, released, listening>>

\* The loop goes last, and not while it calls the listener.
Stop(worker) ==
  /\ life = "closing" /\ worker \in working
  /\ worker = "sender" => "poller" \notin working
  /\ worker = "loop" => working = {"loop"} /\ listening = "none"
  /\ working' = working \ {worker}
  /\ UNCHANGED <<life, metered, loaded, released, listening>>

Finish ==
  /\ life = "closing" /\ working = {}
  /\ life' = "closed"
  /\ UNCHANGED <<working, metered, loaded, released, listening>>

Next ==
  \/ Launch \/ Open \/ Fail \/ Load
  \/ \E method \in Methods : Tell(method)
  \/ Told
  \/ Close
  \/ \E worker \in {"poller", "sender", "loop"} : Stop(worker)
  \/ Finish

Spec == Init /\ [][Next]_serviceVars
==============================================================================
