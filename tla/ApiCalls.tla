------------------------------ MODULE ApiCalls ------------------------------
(***************************************************************************)
(* What every page of the dashboard shares: one page is mounted at a time,  *)
(* its hooks live as long as it is, and everything it shows arrives through *)
(* get_resource, a fetch that is answered in its own time.                  *)
(*                                                                         *)
(* The backend is a history of values per resource; it moves on by itself.  *)
(* A hook holds the version of the resource that an answer carried, so that *)
(* what a page claims can be compared with what was ever the case.          *)
(***************************************************************************)
EXTENDS Integers, Sequences, FiniteSets, FiniteSetsExt, Regions

CONSTANTS
  Followed,   \* the resources whose calls are followed
  Initial,    \* Initial[res]: what res is like at first
  Changes,    \* Changes[res]: what it may become
  Load,       \* what tells concurrent loads apart (bound: their number)
  MaxChange,  \* bound: changes of the backend in a behaviour
  MaxFail     \* bound: calls that fail or learn nothing

ASSUME LoadAssumption == Load # {}
ASSUME CallBounds == MaxChange \in Nat /\ MaxFail \in Nat

VARIABLES
  hist,      \* hist[res]: the values res had, oldest first
  failed,    \* calls that failed or learnt nothing so far
  page,      \* the mounted page
  hook,      \* hook[h]: version held by state hook h of the page, or one below
  opened,    \* opened[res]: the version at the mount of what the page reads
  calls,     \* the calls of the mounted page that are under way
  chosen     \* the execution id in the redux store

callVars == <<hist, failed, page, hook, opened, calls, chosen>>

(* The version of a hook nobody set, and of an answer of default values.    *)
Blank   == -1
Unknown == 0

BlankHook == [res |-> <<>>, part |-> "all", at |-> Blank]

(* What a load asks for: a resource, and for every hook that the .then      *)
(* sets, the part of the answer it keeps.                                   *)
Ask(res, sets) == [res |-> res, sets |-> sets]
Whole(h) == [x \in {h} |-> "all"]

(* A call of get_resource: the load it belongs to, what it asks for, its    *)
(* place in a sequential load (0 when nobody awaits it), and its answer.    *)
Call(load, ask, place) ==
  [load |-> load, res |-> ask.res, sets |-> ask.sets, place |-> place,
   phase |-> "sent", got |-> Blank]

Now(res) == Len(hist[res])

FreeLoads == Load \ {c.load : c \in calls}
AnyOf(loads) == CHOOSE load \in loads : TRUE
NewLoad == AnyOf(FreeLoads)

(* The changes of the backend so far. *)
Moves == MapThenSumSet(LAMBDA r : Now(r) - 1, Followed)

(* The backend moves on. *)
Change(res) ==
  /\ Moves < MaxChange
  /\ \E v \in Changes[res] \ {hist[res][Now(res)]} :
        hist' = [hist EXCEPT ![res] = Append(@, v)]
  /\ UNCHANGED <<failed, page, hook, opened, calls, chosen>>

(* The API reads the resource and answers. *)
Serve(c) ==
  /\ c.phase = "sent"
  /\ calls' = (calls \ {c}) \cup {[c EXCEPT !.phase = "answered", !.got = Now(c.res)]}
  /\ UNCHANGED <<hist, failed, page, hook, opened, chosen>>

(* The API could not look and answers "unknown", zero or no entry.          *)
ServeUnknown(c) ==
  /\ c.phase = "sent" /\ failed < MaxFail
  /\ failed' = failed + 1
  /\ calls' = (calls \ {c}) \cup {[c EXCEPT !.phase = "answered", !.got = Unknown]}
  /\ UNCHANGED <<hist, page, hook, opened, chosen>>

(* The fetch rejects, or get_resource throws because !response.ok.          *)
Fail(c) ==
  /\ c.phase = "sent" /\ failed < MaxFail
  /\ failed' = failed + 1
  /\ calls' = (calls \ {c}) \cup {[c EXCEPT !.phase = "failed"]}
  /\ UNCHANGED <<hist, page, hook, opened, chosen>>

(* The .then of an answered call; a failed one sets nothing.                *)
SetHooks(c) ==
  hook' = [h \in DOMAIN hook |->
             IF c.phase = "answered" /\ h \in DOMAIN c.sets
             THEN [res |-> c.res, part |-> c.sets[h], at |-> c.got]
             ELSE hook[h]]

(* A call that nobody awaits is over when its .then has run.                *)
DeliverOne(c) ==
  /\ c.phase # "sent" /\ c.place = 0
  /\ SetHooks(c)
  /\ calls' = calls \ {c}
  /\ UNCHANGED <<hist, failed, page, opened, chosen>>

(* Calls are all sent at once, and nobody awaits them. *)
Concurrent(load, asks) == {Call(load, a, 0) : a \in {b \in asks : b.res \in Followed}}

(* The first awaited call of asks at or after a place.                      *)
Awaited(load, asks, first) ==
  LET left == {i \in first..Len(asks) : asks[i].res \in Followed}
  IN  {Call(load, asks[i], i) : i \in {j \in left : \A k \in left : j <= k}}

(* An awaited call is followed by the next one of its load, whether it      *)
(* was answered or not: each await has a try of its own.                    *)
DeliverAwaited(c, asks) ==
  /\ c.phase # "sent" /\ c.place > 0
  /\ SetHooks(c)
  /\ calls' = (calls \ {c}) \cup Awaited(c.load, asks, c.place + 1)
  /\ UNCHANGED <<hist, failed, page, opened, chosen>>

(* What a hook holds once a known answer has set it.                        *)
Set(h) == hook[h].at > 0
Held(h) == hist[hook[h].res][hook[h].at]

(* The values res had since the page was mounted.                           *)
SinceOpened(res) == {hist[res][v] : v \in opened[res]..Now(res)}

CallTypeOK(Page, hooks) ==
  /\ \A r \in Followed : Now(r) > 0
  /\ \A r \in DOMAIN opened : opened[r] \in 1..Now(r)
  /\ failed \in 0..MaxFail
  /\ page \in Page
  /\ DOMAIN hook = hooks
  /\ \A h \in DOMAIN hook :
       \/ hook[h] = BlankHook
       \/ hook[h].res \in Followed /\ hook[h].at \in Unknown..Now(hook[h].res)
  /\ \A c \in calls :
       /\ c.load \in Load /\ c.res \in Followed
       /\ DOMAIN c.sets \subseteq DOMAIN hook
       /\ c.phase = "answered" => c.got \in Unknown..Now(c.res)
=============================================================================
