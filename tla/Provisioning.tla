---------------------------- MODULE Provisioning ----------------------------
(***************************************************************************)
(* Pairing and provisioning of one connector (connector/app/provisioning.py, *)
(* main.py, wizard.py, admin.py, paths.py).  A setup code of the dashboard is  *)
(* exchanged for credentials, every camera source gets a camera at the         *)
(* backend, zones drawn in the installer are sent after them, and the source    *)
(* set is made authoritative.  Two actors run that same workflow: the          *)
(* service's main thread and a handler of the control page.  Each loads the     *)
(* whole configuration file, works on its copy across many calls to the         *)
(* backend, and writes the whole file back.                                    *)
(*                                                                         *)
(* The credentials are rows of a database; the file is truncated and written,   *)
(* so a crash in between leaves it unreadable.  Calls fail before or after the   *)
(* backend has done its part.                                                  *)
(***************************************************************************)
EXTENDS Naturals, Sequences, FiniteSets, SequencesExt

CONSTANTS
    Sources,           \* physical sources, by their stable key
    Zones, IndexOf,    \* zones of the installer and the index of their source
    Codes,             \* setup codes the dashboard can issue
    MaxEdits,          \* bound: edits of the sources on the page
    MaxFaults          \* bound: failed calls, lost answers and crashes

\* The installer has a list of sources and of zones; a code is a fixed number of
\* characters of an alphabet (ConnectorInstallerService.cs).
ASSUME FiniteAssumption ==
    IsFiniteSet(Sources) /\ IsFiniteSet(Zones) /\ IsFiniteSet(Codes)

ASSUME ProvisioningAssumption ==
    /\ IndexOf \in [Zones -> Nat \ {0}]
    /\ MaxEdits \in Nat /\ MaxFaults \in Nat

None   == "none"
Actors == {"main", "page"}

Pairing == {"claim", "storeId", "storeKey"}
Places  == Pairing \cup
    {"saveClaim", "create", "checkpoint", "finalize",
     "boot", "unlink", "reconcile", "waitCode", "start", "zones", "popZone", "complete", "check",
     "waitFinish", "failed", "failedUsed", "reload", "run", "unregistered",
     "idle", "revert", "markComplete", "saveComplete", "saveSources"}

VARIABLES
    config, update,    \* the configuration file; a source update of the installer
    creds,             \* the two rows: connector_id, api_key
    pc, mine, reply,   \* per actor: where it is, its copy of the file, the key received
    kind, target,      \* what the page is doing, and to which source
    ready,             \* its wake-up of main
    used, key, recent, \* backend: codes consumed, the current key, heard of lately
    attached, placed,  \* backend: cameras of the connector, zones of its cameras
    edited, torn,      \* history: sources edited; the file was once unreadable
    edits, faults

file    == <<config, update>>
local   == <<pc, mine, reply>>
request == <<kind, target, ready>>
backend == <<used, key, recent, attached, placed>>
history == <<edited, torn>>
bounds  == <<edits, faults>>
vars    == <<file, creds, local, request, backend, history, bounds>>

Configs ==
    [sources : {s \in SeqOf(Sources, Cardinality(Sources)) : IsInjective(s)},
     cams : SUBSET Sources, pending : SeqOf(Zones, Cardinality(Zones)),
     code : Codes \cup {None}, complete : BOOLEAN]

Torn     == [unreadable |-> TRUE]
Empty    == [sources |-> <<>>, cams |-> {}, pending |-> <<>>, code |-> None, complete |-> FALSE]
Restarted == [a \in Actors |-> IF a = "main" THEN "boot" ELSE "idle"]
Load     == IF config = Torn THEN Empty ELSE config
HasCreds == creds.id /\ creds.key # 0
Authorised == HasCreds /\ creds.key = key
Sent(w)  == ToSet(w.sources)

\* A fresh installation with a code, one without, and an update of a paired one.
Init ==
    /\ \E s \in {t \in SeqOf(Sources, Cardinality(Sources)) : IsInjective(t)} :
       \E drawn \in {q \in SeqOf(Zones, Cardinality(Zones)) : ToSet(q) = Zones} :
       \E c \in Codes \cup {None}, paired \in BOOLEAN :
         /\ config = [sources |-> s, cams |-> {}, pending |-> drawn,
                      code |-> c, complete |-> FALSE]
         /\ \A z \in Zones : IndexOf[z] <= Len(s)
         /\ creds = [id |-> paired, key |-> IF paired THEN 1 ELSE 0]
         /\ key = IF paired THEN 1 ELSE 0
         /\ update \in {<<>>} \cup (IF paired THEN {<<t>> : t \in Sources} ELSE {})
    /\ used = {} /\ recent = FALSE /\ attached = {} /\ placed = {}
    /\ pc = Restarted
    /\ mine = [a \in Actors |-> Empty] /\ reply = 0
    /\ kind = None /\ target = None /\ ready = FALSE
    /\ edited = FALSE /\ torn = FALSE
    /\ edits = 0 /\ faults = 0

-----------------------------------------------------------------------------
Goto(a, place) == pc' = [pc EXCEPT ![a] = place]
Copy(a, w)     == mine' = [mine EXCEPT ![a] = w]
Save(a, w)     == config' = w /\ Copy(a, w)
Fault          == faults < MaxFaults /\ faults' = faults + 1

\* Where an actor goes when a call fails: main to its error path; the page to
\* putting back the incomplete list where its handler catches the error so.
OnError(a) ==
    IF a = "main" THEN "failed" ELSE IF kind \in {"add", "bulk"} THEN "revert" ELSE "idle"

Without(w, i) == [w EXCEPT !.sources = RemoveAt(@, i), !.cams = @ \ {w.sources[i]}]

-----------------------------------------------------------------------------
(* provisioning.py: the workflow both actors run.                            *)

\* provision_sources, of the whole list or of the page's one source, passes over
\* a source that has a camera id.  Todo: the places of those that have none.
Asked(a, w) == IF a = "page" /\ target # None THEN <<target>> ELSE w.sources
Todo(a, w)  == {i \in DOMAIN Asked(a, w) : Asked(a, w)[i] \notin w.cams}

NextStep(a, w) ==
    CASE Todo(a, w) # {}                          -> "create"
      [] a = "main" /\ w.sources # <<>>             -> "zones"
      [] a = "main" /\ w.sources = <<>>             -> "complete"
      [] a = "page" /\ kind = "add"                 -> "markComplete"
      [] OTHER                                      -> "finalize"

\* The page's handler loads the file again and writes it back with the error.
Noted(a) == config' = IF a = "page" THEN Load ELSE config

\* claim_setup, at the backend: the code is consumed and the store's connector
\* gets a new key, unless it was heard of within two minutes.
ClaimRefused(a) ==
    /\ pc[a] = "claim"
    /\ mine[a].code \in used \/ recent
    /\ Goto(a, IF a = "main" THEN IF recent /\ mine[a].code \notin used
                                  THEN "failed" ELSE "failedUsed"
               ELSE "idle")
    /\ Noted(a)
    /\ UNCHANGED <<update, creds, mine, reply, request, backend, history, bounds>>

\* The backend cannot be reached.  "Connection refused" has "used" in it, and
\* main's error path takes it for a code that was used.
ClaimUnreachable(a) ==
    /\ pc[a] = "claim" /\ Fault
    /\ \E place \in IF a = "main" THEN {"failed", "failedUsed"} ELSE {"idle"} : Goto(a, place)
    /\ Noted(a)
    /\ UNCHANGED <<update, creds, mine, reply, request, backend, history, edits>>

Claim(a) ==
    /\ pc[a] = "claim"
    /\ mine[a].code \notin used /\ ~recent
    /\ used' = used \cup {mine[a].code} /\ key' = key + 1 /\ recent' = TRUE
    /\ \/ reply' = key' /\ Goto(a, "storeId") /\ UNCHANGED <<config, faults>>
       \/ UNCHANGED reply /\ Fault /\ Goto(a, IF a = "main" THEN "failed" ELSE "idle") /\ Noted(a)
    /\ UNCHANGED <<update, creds, mine, request, attached, placed, history, edits>>

\* Two commits, then the file without the code.
StoreId(a) ==
    /\ pc[a] = "storeId" /\ Goto(a, "storeKey")
    /\ creds' = [creds EXCEPT !.id = TRUE]
    /\ UNCHANGED <<file, mine, reply, request, backend, history, bounds>>

StoreKey(a) ==
    /\ pc[a] = "storeKey" /\ Goto(a, "saveClaim")
    /\ creds' = [creds EXCEPT !.key = reply]
    /\ UNCHANGED <<file, mine, reply, request, backend, history, bounds>>

SaveClaim(a) ==
    /\ pc[a] = "saveClaim"
    /\ Save(a, [mine[a] EXCEPT !.code = None, !.complete = FALSE])
    /\ Goto(a, IF a = "main" THEN NextStep(a, mine[a]) ELSE "idle")
    /\ UNCHANGED <<update, creds, reply, request, backend, history, bounds>>

\* The backend creates a camera, or finds the one it has for the key.
CreateCamera(a) ==
    /\ pc[a] = "create" /\ Authorised
    /\ \E i \in Todo(a, mine[a]) :
       LET s == Asked(a, mine[a])[i]
           w == [mine[a] EXCEPT !.cams = @ \cup {s}]
       IN /\ \A j \in Todo(a, mine[a]) : i <= j
          /\ attached' = attached \cup {s}
          /\ \/ /\ Copy(a, w) /\ UNCHANGED faults
                /\ Goto(a, IF kind = "update" /\ a = "page" THEN NextStep(a, w) ELSE "checkpoint")
             \/ Fault /\ Goto(a, OnError(a)) /\ UNCHANGED mine
    /\ UNCHANGED <<file, creds, reply, request, used, key, recent, placed, history, edits>>

\* No answer, no stream of the camera, or a key that is no longer valid.
CreateFails(a) ==
    /\ pc[a] = "create"
    /\ IF Authorised THEN Fault ELSE UNCHANGED faults
    /\ Goto(a, OnError(a))
    /\ UNCHANGED <<file, creds, mine, reply, request, backend, history, edits>>

Checkpoint(a) ==
    /\ pc[a] = "checkpoint"
    /\ Save(a, [mine[a] EXCEPT !.complete = FALSE])
    /\ Goto(a, NextStep(a, mine[a]))
    /\ UNCHANGED <<update, creds, reply, request, backend, history, bounds>>

\* finalize-setup: the cameras of these sources and no others are the
\* connector's; refused if one of them is not, or if there are none.
Finalize(a) ==
    /\ pc[a] = "finalize"
    /\ Authorised /\ mine[a].sources # <<>> /\ Sent(mine[a]) \subseteq attached
    /\ attached' = Sent(mine[a])
    /\ placed' = {p \in placed : p[2] \in attached'}
    /\ \/ /\ UNCHANGED faults
          /\ Goto(a, CASE a = "main"                        -> "complete"
                       [] a = "page" /\ kind = "sources"    -> "saveSources"
                       [] a = "page" /\ kind = "add"        -> "idle"
                       [] OTHER                             -> "saveComplete")
       \/ Fault /\ Goto(a, OnError(a))
    /\ UNCHANGED <<file, creds, mine, reply, request, used, key, recent, history, edits>>

FinalizeFails(a) ==
    /\ pc[a] = "finalize"
    /\ IF Authorised /\ mine[a].sources # <<>> /\ Sent(mine[a]) \subseteq attached
         THEN Fault ELSE UNCHANGED faults
    /\ Goto(a, OnError(a))
    /\ UNCHANGED <<file, creds, mine, reply, request, backend, history, edits>>

Workflow(a) ==
    \/ ClaimRefused(a) \/ ClaimUnreachable(a) \/ Claim(a)
    \/ StoreId(a) \/ StoreKey(a) \/ SaveClaim(a)
    \/ CreateCamera(a) \/ CreateFails(a) \/ Checkpoint(a)
    \/ Finalize(a) \/ FinalizeFails(a)

-----------------------------------------------------------------------------
(* main.py: the service's main thread.                                       *)

At(place) == pc["main"] = place
w0 == mine["main"]

\* Setup is over.  A connector that was never paired can only register with the
\* store id of its command line; without one it sleeps until it is restarted.
Over == IF HasCreds THEN "run" ELSE "unregistered"

\* paths.apply_pending_source_update: saved, then the update is removed.
ApplyUpdate ==
    /\ At("boot") /\ update # <<>> /\ config # Torn
    /\ Save("main", [config EXCEPT !.sources = update, !.cams = {}, !.complete = FALSE])
    /\ Goto("main", "unlink") /\ edited' = TRUE
    /\ UNCHANGED <<update, creds, reply, request, backend, torn, bounds>>

Unlink ==
    /\ At("unlink") /\ update' = <<>> /\ Goto("main", "reconcile")
    /\ UNCHANGED <<config, creds, mine, reply, request, backend, history, bounds>>

\* Where a configuration that has just been loaded leads.
Onward(w) ==
    CASE w.complete                      -> Over
      [] ~w.complete /\ (HasCreds \/ w.code # None) -> "start"
      [] OTHER                           -> "waitCode"

\* A paired connector drops a code it finds (_reconcile_paired_wizard).  A file
\* it cannot read counts as no setup at all.
Reconcile ==
    /\ At("reconcile") \/ (At("boot") /\ (update = <<>> \/ config = Torn))
    /\ ready' = FALSE
    /\ IF config = Torn THEN Goto("main", Over) /\ UNCHANGED <<config, mine>>
       ELSE LET w == [config EXCEPT !.code = IF HasCreds THEN None ELSE @]
            IN Save("main", w) /\ Goto("main", Onward(w))
    /\ UNCHANGED <<update, creds, reply, kind, target, backend, history, bounds>>

\* A poll of the file finds a code or a finished setup, or the page has called:
\* then main goes on with the copy it has.
WaitCode ==
    /\ At("waitCode")
    /\ \/ ready /\ Goto("main", "start") /\ UNCHANGED mine
       \/ /\ ~ready /\ config # Torn /\ (config.code # None \/ config.complete)
          /\ Copy("main", config)
          /\ Goto("main", IF config.complete THEN Over ELSE "start")
    /\ UNCHANGED <<file, creds, reply, request, backend, history, bounds>>

\* A mutant: a code at hand is claimed although the connector is paired.
StartWithCode ==
    /\ At("start")
    /\ IF w0.code # None \/ ~HasCreds
         THEN /\ Goto("main", IF w0.code # None THEN "claim" ELSE "failed")
              /\ UNCHANGED <<config, mine>>
         ELSE Save("main", w0) /\ Goto("main", NextStep("main", w0))
    /\ UNCHANGED <<update, creds, reply, request, backend, history, bounds>>

\* _provision_native_installer: credentials come before any code.
Start ==
    /\ At("start")
    /\ IF ~HasCreds
         THEN /\ Goto("main", IF w0.code # None THEN "claim" ELSE "failed")
              /\ UNCHANGED <<config, mine>>
         ELSE /\ Save("main", [w0 EXCEPT !.code = None])
              /\ Goto("main", NextStep("main", w0))
    /\ UNCHANGED <<update, creds, reply, request, backend, history, bounds>>

Zone     == Head(w0.pending)
InList   == IndexOf[Zone] <= Len(w0.sources)
ZoneAt   == w0.sources[IndexOf[Zone]]
Accepted == Authorised /\ ZoneAt \in attached

NoMoreZones ==
    /\ At("zones") /\ w0.pending = <<>> /\ Goto("main", "finalize")
    /\ UNCHANGED <<file, creds, mine, reply, request, backend, history, bounds>>

\* A mutant: the zone leaves the file before the backend has it.
CreateZonePopped ==
    /\ At("zones") /\ w0.pending # <<>> /\ InList /\ Accepted
    /\ Save("main", [w0 EXCEPT !.pending = Tail(@)])
    /\ \/ placed' = placed \cup {<<Zone, ZoneAt>>} /\ UNCHANGED <<pc, faults>>
       \/ Fault /\ Goto("main", "failed") /\ UNCHANGED placed
    /\ UNCHANGED <<update, creds, reply, request, used, key, recent, attached, history, edits>>

\* A zone goes to the camera of the source at its index.  It is taken off the
\* list after that, so an answer that is lost sends it twice.
CreateZone ==
    /\ At("zones") /\ w0.pending # <<>> /\ InList /\ Accepted
    /\ placed' = placed \cup {<<Zone, ZoneAt>>}
    /\ \/ Goto("main", "popZone") /\ UNCHANGED faults
       \/ Fault /\ Goto("main", "failed")
    /\ UNCHANGED <<file, creds, mine, reply, request, used, key, recent, attached, history, edits>>

ZoneFails ==
    /\ At("zones") /\ w0.pending # <<>> /\ InList
    /\ IF Accepted THEN Fault ELSE UNCHANGED faults
    /\ Goto("main", "failed")
    /\ UNCHANGED <<file, creds, mine, reply, request, backend, history, edits>>

\* Also of a zone whose index is beyond the list, which is dropped.
PopZone ==
    /\ At("popZone") \/ (At("zones") /\ w0.pending # <<>> /\ ~InList)
    /\ Save("main", [w0 EXCEPT !.pending = Tail(@)]) /\ Goto("main", "zones")
    /\ UNCHANGED <<update, creds, reply, request, backend, history, bounds>>

Complete ==
    /\ At("complete")
    /\ Save("main", [w0 EXCEPT !.code = None, !.complete = TRUE]) /\ Goto("main", "check")
    /\ UNCHANGED <<update, creds, reply, request, backend, history, bounds>>

Check ==
    /\ At("check") /\ Copy("main", Load)
    /\ ready' = FALSE
    /\ Goto("main", IF Load.sources # <<>> /\ ~Load.complete THEN "waitFinish" ELSE Over)
    /\ UNCHANGED <<file, creds, reply, kind, target, backend, history, bounds>>

WaitFinish ==
    /\ At("waitFinish")
    /\ \/ config # Torn /\ config.complete /\ Goto("main", Over)
       \/ ready /\ Goto("main", "start")
    /\ UNCHANGED <<file, creds, mine, reply, request, backend, history, bounds>>

\* A mutant: a code that was refused stays in the file.
FailedKeepsCode ==
    /\ At("failed") \/ At("failedUsed")
    /\ Save("main", IF HasCreds THEN [w0 EXCEPT !.code = None] ELSE w0)
    /\ Goto("main", "reload")
    /\ UNCHANGED <<update, creds, reply, request, backend, history, bounds>>

\* _persist_provision_failure writes main's copy, without the code if the error
\* was about it or the connector is paired by now.
Failed ==
    /\ At("failed") \/ At("failedUsed")
    /\ Save("main", IF At("failedUsed") \/ HasCreds THEN [w0 EXCEPT !.code = None] ELSE w0)
    /\ Goto("main", "reload")
    /\ UNCHANGED <<update, creds, reply, request, backend, history, bounds>>

Reload ==
    /\ At("reload")
    /\ ready' = FALSE
    /\ Copy("main", Load) /\ Goto("main", Onward(Load))
    /\ UNCHANGED <<file, creds, reply, kind, target, backend, history, bounds>>

Main ==
    \/ Workflow("main")
    \/ ApplyUpdate \/ Unlink \/ Reconcile \/ WaitCode \/ Start
    \/ NoMoreZones \/ CreateZone \/ ZoneFails \/ PopZone \/ Complete \/ Check \/ WaitFinish
    \/ Failed \/ Reload

-----------------------------------------------------------------------------
(* The control page, one request at a time.  wizard.py and admin.py.         *)

\* The page is up once main has looked at the file.
Idle       == pc["page"] = "idle" /\ pc["main"] \notin {"boot", "unlink", "reconcile"}
w1         == mine["page"]
PageAt(st) == pc["page"] = st
Ask(what, s) ==
    /\ kind' = what /\ target' = s
    /\ UNCHANGED <<ready, creds, update, reply, backend, torn, faults>>
Edit       == edits < MaxEdits /\ edits' = edits + 1 /\ edited' = TRUE
Incomplete(w) == [w EXCEPT !.complete = FALSE]

\* The code is in the file before it is claimed: main may find it there and
\* claim it too.  The page is asked for this of an unpaired connector only.
RequestClaim ==
    /\ Idle /\ ~HasCreds
    /\ \E c \in Codes \ used : Save("page", [Load EXCEPT !.code = c])
    /\ Goto("page", "claim") /\ Ask("claim", None) /\ UNCHANGED <<edits, edited>>

\* wizard_sources: a new list, written with the first camera.
RequestSources ==
    /\ Idle /\ HasCreds /\ Edit
    /\ \E s \in {t \in SeqOf(Sources, Cardinality(Sources)) : t # <<>> /\ IsInjective(t)} :
         Copy("page", [Load EXCEPT !.sources = s, !.cams = {}, !.complete = FALSE])
    /\ Goto("page", "create") /\ Ask("sources", None) /\ UNCHANGED config

\* add_sources: written before the cameras are created; a source that is there
\* already is refused.
RequestAdd ==
    /\ Idle /\ HasCreds /\ Edit
    /\ \E s \in Sources \ Sent(Load) :
         Save("page", Incomplete([Load EXCEPT !.sources = Append(@, s)])) /\ Ask("add", s)
    /\ Goto("page", "create")

\* A mutant: the source that is replaced keeps its camera.
RequestUpdateKeepsCamera ==
    /\ Idle /\ HasCreds /\ Edit
    /\ \E i \in DOMAIN Load.sources : \E s \in Sources \ Sent(Load) :
         Save("page", Incomplete([Load EXCEPT !.sources[i] = s])) /\ Ask("update", s)
    /\ Goto("page", "create")

\* update_source: the source loses its camera, and may get another key.
RequestUpdate ==
    /\ Idle /\ HasCreds /\ Edit
    /\ \E i \in DOMAIN Load.sources : \E s \in (Sources \ Sent(Load)) \cup {Load.sources[i]} :
         /\ Save("page", Incomplete([Load EXCEPT !.sources[i] = s, !.cams = @ \ {Load.sources[i]}]))
         /\ Ask("update", s)
    /\ Goto("page", "create")

\* remove_source: written first.  An empty list is refused by the backend.
RequestRemove ==
    /\ Idle /\ HasCreds /\ Edit
    /\ \E i \in DOMAIN Load.sources : Save("page", Incomplete(Without(Load, i)))
    /\ Goto("page", "finalize") /\ Ask("remove", None)

\* bulk_delete_sources: nothing is written before the backend has agreed.
RequestBulkDelete ==
    /\ Idle /\ HasCreds /\ Edit
    /\ \E i \in DOMAIN Load.sources : Copy("page", Without(Load, i))
    /\ Goto("page", "finalize") /\ Ask("bulk", None) /\ UNCHANGED config

Finished(w) == [w EXCEPT !.code = None, !.complete = TRUE]

SkipSources ==
    /\ Idle /\ HasCreds /\ Edit
    /\ config' = Finished([Load EXCEPT !.sources = <<>>, !.cams = {}])
    /\ ready' = TRUE
    /\ UNCHANGED <<update, creds, local, kind, target, backend, torn, faults>>

\* zones/finish or zones/skip.
FinishZones ==
    /\ Idle /\ HasCreds /\ ~Load.complete
    /\ config' = Finished(Load) /\ ready' = TRUE
    /\ UNCHANGED <<update, creds, local, kind, target, backend, history, bounds>>

MarkComplete ==
    /\ PageAt("markComplete") /\ Save("page", [w1 EXCEPT !.complete = TRUE])
    /\ Goto("page", "finalize")
    /\ UNCHANGED <<update, creds, reply, request, backend, history, bounds>>

Revert ==
    /\ PageAt("revert") /\ Save("page", Incomplete(w1)) /\ Goto("page", "idle")
    /\ UNCHANGED <<update, creds, reply, request, backend, history, bounds>>

SaveComplete ==
    /\ PageAt("saveComplete") /\ Save("page", [w1 EXCEPT !.complete = TRUE])
    /\ Goto("page", "idle")
    /\ UNCHANGED <<update, creds, reply, request, backend, history, bounds>>

\* wizard_sources loads the file a second time for its last write.
SaveSources ==
    /\ PageAt("saveSources")
    /\ Save("page", Incomplete([Load EXCEPT !.sources = w1.sources, !.cams = w1.cams]))
    /\ Goto("page", "idle")
    /\ UNCHANGED <<update, creds, reply, request, backend, history, bounds>>

Page == Workflow("page") \/ MarkComplete \/ Revert \/ SaveComplete \/ SaveSources

Operator ==
    \/ RequestClaim \/ RequestSources \/ RequestAdd \/ RequestUpdate \/ RequestRemove
    \/ RequestBulkDelete \/ SkipSources \/ FinishZones

-----------------------------------------------------------------------------
(* Crashes and time.                                                         *)

\* Writing the file truncates it first.
Saving == {"saveClaim", "checkpoint", "popZone", "complete", "failed", "failedUsed", "start",
           "revert", "saveSources", "saveComplete", "markComplete"}

Writing ==
    \/ \E a \in Actors : pc[a] \in Saving
    \/ Idle                          \* a request of the page
    \/ At("boot") /\ update # <<>>
    \/ pc["main"] \in {"boot", "reconcile"} /\ HasCreds /\ Load.code # None

Crash ==
    /\ Fault
    /\ \/ UNCHANGED <<config, torn>>
       \/ Writing /\ config' = Torn /\ torn' = TRUE
    /\ pc' = Restarted
    /\ mine' = [a \in Actors |-> Empty] /\ reply' = 0 /\ kind' = None /\ target' = None /\ ready' = FALSE
    /\ UNCHANGED <<update, creds, backend, edited, edits>>

\* The backend has not heard of the connector for two minutes.  A claim sent
\* before the pairing is answered or given up by then, and the key is stored.
TwoMinutes ==
    /\ recent
    /\ \A a \in Actors : pc[a] \notin {"storeId", "storeKey"} \cup (IF HasCreds THEN {"claim"} ELSE {})
    /\ recent' = FALSE
    /\ UNCHANGED <<file, creds, local, request, used, key, attached, placed, history, bounds>>

Heartbeat ==
    /\ At("run") /\ Authorised /\ ~recent /\ recent' = TRUE
    /\ UNCHANGED <<file, creds, local, request, used, key, attached, placed, history, bounds>>

Next == Main \/ Page \/ Operator \/ Crash \/ TwoMinutes \/ Heartbeat

Spec == Init /\ [][Next]_vars

\* Main, the handlers and the clock go on; an operator enters a code when the
\* connector waits for one, and finishes the setup of a paired one.
FairSpec ==
    /\ Spec /\ WF_vars(Main) /\ WF_vars(Page) /\ WF_vars(TwoMinutes)
    /\ WF_vars(At("waitCode") /\ RequestClaim) /\ SF_vars(~At("run") /\ FinishZones)

-----------------------------------------------------------------------------
\* Every variable has its type, and a camera id belongs to a source of the list.
TypeOK ==
    /\ config \in Configs \cup {Torn}
    /\ config # Torn => config.cams \subseteq Sent(config)
    /\ update \in SeqOf(Sources, 1)
    /\ creds \in [id : BOOLEAN, key : 0..(Cardinality(Codes) + 1)]
    /\ pc \in [Actors -> Places] /\ mine \in [Actors -> Configs]
    /\ {reply, key} \subseteq 0..(Cardinality(Codes) + 1)
    /\ kind \in {None, "claim", "sources", "add", "update", "remove", "bulk"}
    /\ target \in Sources \cup {None}
    /\ used \subseteq Codes /\ {ready, recent, edited, torn} \subseteq BOOLEAN
    /\ attached \subseteq Sources /\ placed \subseteq Zones \X attached
    /\ edits \in 0..MaxEdits /\ faults \in 0..MaxFaults

\* A connector that holds credentials holds those of its last pairing: no race
\* of main and the page for a code, no lost answer and no crash between the two
\* rows leaves it with a key the backend has replaced, which nothing would mend.
CredentialsWork == HasCreds => creds.key = key

\* A zone drawn in the installer waits in the file or is with the camera of the
\* source it was drawn on, whatever call fails or crash intervenes.  An edit of
\* the sources makes the indexes wrong, a torn file loses them.
ZonesArrive ==
    ~edited /\ ~torn => \A z \in Zones :
        z \in ToSet(config.pending) \/ <<z, config.sources[IndexOf[z]]>> \in placed

\* Setup comes to an end.  What may prevent it: the file became unreadable
\* before the connector was paired, or main's list names a camera that an edit
\* on the page has detached, which finalize refuses again and again.
Detached == \E s \in mine["main"].cams : s \notin attached
SetupEnds == <>[](At("run") \/ (torn /\ At("unregistered")) \/ (edited /\ Detached))
=============================================================================
