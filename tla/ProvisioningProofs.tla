------------------------- MODULE ProvisioningProofs -------------------------
(***************************************************************************)
(* Proofs about Provisioning, for every set of sources, zones and codes     *)
(* and any number of edits and faults.                                     *)
(*                                                                         *)
(* CredentialsWork needs to know who may still be claiming: once the        *)
(* connector holds credentials, a claim that is under way finds the backend *)
(* busy with the one before, and a key being stored is the current one.     *)
(*                                                                         *)
(* ZonesArrive speaks of the file; every copy of it that main or the page    *)
(* may yet write back has to keep the zones as well, which is ArrivalInv.    *)
(*                                                                         *)
(* TypeOK bounds the keys by the codes and the lists by the sources: it      *)
(* needs that both are finite, and TypeInv of every copy.                    *)
(***************************************************************************)
EXTENDS Provisioning, FiniteSetTheorems, SequenceTheorems, TLAPS

Storing   == {"storeId", "storeKey"}
Elsewhere == Places \ Pairing

CredentialsInv ==
    /\ pc \in [Actors -> Places] /\ key \in Nat
    /\ creds \in [id : BOOLEAN, key : Nat]
    /\ CredentialsWork
    /\ creds.key # 0 => creds.id
    /\ \A a \in Actors :
          /\ pc[a] = "claim" /\ HasCreds => recent
          /\ pc[a] \in Storing => recent /\ reply = key
          /\ pc[a] = "storeKey" => creds.id

-----------------------------------------------------------------------------
(* Credentials.                                                            *)

\* The initial states: paired with the current key, or without any.
LEMMA InitCredentialsInv == Init => CredentialsInv
<1> SUFFICES ASSUME Init PROVE CredentialsInv
  OBVIOUS
<1>1. pc \in [Actors -> Places] /\ \A a \in Actors : pc[a] \in {"boot", "idle"}
  BY DEF Init, Restarted, Places
<1>2. PICK paired \in BOOLEAN :
          /\ creds = [id |-> paired, key |-> IF paired THEN 1 ELSE 0]
          /\ key = IF paired THEN 1 ELSE 0
  BY DEF Init
<1> QED
  BY <1>1, <1>2 DEF CredentialsInv, CredentialsWork, HasCreds, Storing

\* A step that leaves the credentials and the backend's key alone, and starts
\* neither a claim nor the storing of a key.
LEMMA NoNewClaim ==
  ASSUME CredentialsInv, pc' \in [Actors -> Places], UNCHANGED <<creds, key, reply>>,
         recent => recent',
         \A a \in Actors : pc'[a] # pc[a] => pc'[a] \notin {"claim"} \cup Storing
  PROVE  CredentialsInv'
  BY DEF CredentialsInv, CredentialsWork, HasCreds, Storing

\* An actor moves on: it is elsewhere, the other is where it was.
LEMMA GotoMoves ==
  ASSUME CredentialsInv, NEW a \in Actors, NEW place \in Places, Goto(a, place)
  PROVE  /\ pc' \in [Actors -> Places] /\ pc'[a] = place
         /\ \A b \in Actors \ {a} : pc'[b] = pc[b]
  BY DEF CredentialsInv, Goto
\* The steps of the workflow that pairs.
LEMMA PairingStep ==
  ASSUME CredentialsInv, NEW a \in Actors,
         ClaimRefused(a) \/ ClaimUnreachable(a) \/ Claim(a) \/ StoreId(a) \/ StoreKey(a)
           \/ SaveClaim(a)
  PROVE  CredentialsInv'
<1> USE DEF CredentialsInv, CredentialsWork, HasCreds, Storing
<1>p. {"failed", "failedUsed", "idle", "storeId", "storeKey", "saveClaim", "create"} \subseteq Places
  BY DEF Places, Pairing
<1>1. CASE ClaimRefused(a) \/ ClaimUnreachable(a)
  <2>1. PICK place \in {"failed", "failedUsed", "idle"} : Goto(a, place)
    BY <1>1 DEF ClaimRefused, ClaimUnreachable
  <2>2. UNCHANGED <<creds, key, reply, recent>>
    BY <1>1 DEF ClaimRefused, ClaimUnreachable, backend
  <2> QED
    BY <1>p, <2>1, <2>2, GotoMoves, NoNewClaim
<1>2. CASE Claim(a)
  <2>1. /\ pc[a] = "claim" /\ ~recent /\ recent' /\ key' = key + 1 /\ creds' = creds
        /\ (reply' = key' /\ Goto(a, "storeId")) \/ Goto(a, "failed") \/ Goto(a, "idle")
    BY <1>2 DEF Claim
  <2>2. ~HasCreds /\ creds.key = 0
    BY <2>1
  <2>3. \A b \in Actors \ {a} : pc'[b] = pc[b] /\ pc[b] \notin Storing
    BY <1>p, <2>1, GotoMoves
  <2>4. pc' \in [Actors -> Places] /\ pc'[a] \notin {"claim", "storeKey"} /\ (pc'[a] \in Storing => reply' = key')
    BY <1>p, <2>1, GotoMoves
  <2> QED
    BY <2>1, <2>2, <2>3, <2>4
<1>3. CASE StoreId(a)
  <2>1. Goto(a, "storeKey") /\ pc[a] = "storeId" /\ creds' = [creds EXCEPT !.id = TRUE]
        /\ UNCHANGED <<key, reply, recent>>
    BY <1>3 DEF StoreId, backend
  <2>2. creds'.id = TRUE /\ creds'.key = creds.key /\ creds' \in [id : BOOLEAN, key : Nat]
    BY <2>1
  <2> QED
    BY <1>p, <2>1, <2>2, GotoMoves
<1>4. CASE StoreKey(a)
  <2>1. Goto(a, "saveClaim") /\ pc[a] = "storeKey" /\ creds' = [creds EXCEPT !.key = reply]
        /\ UNCHANGED <<key, reply, recent>>
    BY <1>4 DEF StoreKey, backend
  <2>2. creds'.id = creds.id /\ creds'.key = key /\ creds' \in [id : BOOLEAN, key : Nat]
    BY <2>1
  <2> QED
    BY <1>p, <2>1, <2>2, GotoMoves
<1>5. CASE SaveClaim(a)
  <2>1. NextStep(a, mine[a]) \in Places /\ NextStep(a, mine[a]) \notin {"claim"} \cup Storing
    BY DEF NextStep, Places, Pairing
  <2>2. PICK place \in Places : Goto(a, place) /\ place \notin {"claim"} \cup Storing
    BY <1>p, <1>5, <2>1 DEF SaveClaim
  <2>3. UNCHANGED <<creds, key, reply, recent>>
    BY <1>5 DEF SaveClaim, backend
  <2> QED
    BY <2>2, <2>3, GotoMoves, NoNewClaim
<1> QED
  BY <1>1, <1>2, <1>3, <1>4, <1>5

\* The steps that move an actor elsewhere.
LEMMA ElsewhereStep ==
  ASSUME CredentialsInv, NEW a \in Actors, NEW place \in Elsewhere, Goto(a, place),
         UNCHANGED <<creds, key, reply, recent>>
  PROVE  CredentialsInv'
<1>1. place \in Places /\ place \notin {"claim"} \cup Storing
  BY DEF Elsewhere, Places, Pairing, Storing
<1> QED
  BY <1>1, GotoMoves, NoNewClaim DEF CredentialsInv

\* Every step keeps the credentials in force.
LEMMA CredentialsStep == CredentialsInv /\ [Next]_vars => CredentialsInv'
<1> SUFFICES ASSUME CredentialsInv, [Next]_vars PROVE CredentialsInv'
  OBVIOUS
<1> USE DEF backend, request
<1>e. {"idle", "revert", "failed", "failedUsed", "create", "checkpoint", "zones", "popZone",
       "complete", "markComplete", "finalize", "saveSources", "saveComplete", "unlink",
       "reconcile", "start", "waitCode", "run", "unregistered", "check", "waitFinish", "reload"}
         \subseteq Elsewhere
  BY DEF Elsewhere, Places, Pairing
<1>m. "main" \in Actors /\ "page" \in Actors
  BY DEF Actors
<1>n. \A a \in Actors : \A w : NextStep(a, w) \in Elsewhere
  BY DEF NextStep, Elsewhere, Places, Pairing
<1>v. Over \in Elsewhere
  BY <1>e DEF Over
<1>o. \A a \in Actors : \A w : OnError(a) \in Elsewhere /\ Onward(w) \in Elsewhere
  BY DEF OnError, Onward, Over, Elsewhere, Places, Pairing
<1>1. ASSUME NEW a \in Actors, Workflow(a) PROVE CredentialsInv'
  <2>1. CASE ClaimRefused(a) \/ ClaimUnreachable(a) \/ Claim(a) \/ StoreId(a) \/ StoreKey(a)
               \/ SaveClaim(a)
    BY <2>1, PairingStep
  <2>2. CASE CreateCamera(a)
    <3>1. PICK place \in Elsewhere : Goto(a, place)
      BY <1>e, <1>n, <1>o, <2>2 DEF CreateCamera
    <3> QED
      BY <2>2, <3>1, ElsewhereStep DEF CreateCamera
  <2>3. CASE CreateFails(a) \/ Checkpoint(a) \/ FinalizeFails(a)
    <3>1. PICK place \in Elsewhere : Goto(a, place)
      BY <1>e, <1>n, <1>o, <2>3 DEF CreateFails, Checkpoint, FinalizeFails
    <3> QED
      BY <2>3, <3>1, ElsewhereStep DEF CreateFails, Checkpoint, FinalizeFails
  <2>4. CASE Finalize(a)
    <3>1. PICK place \in Elsewhere : Goto(a, place)
      BY <1>e, <1>o, <2>4 DEF Finalize, Actors
    <3> QED
      BY <2>4, <3>1, ElsewhereStep DEF Finalize
  <2> QED
    BY <1>1, <2>1, <2>2, <2>3, <2>4 DEF Workflow
<1>2. CASE ApplyUpdate \/ Unlink \/ Reconcile \/ NoMoreZones \/ ZoneFails
  <2>1. CASE ApplyUpdate
    BY <1>e, <1>m, <2>1, ElsewhereStep DEF ApplyUpdate
  <2>2. CASE Unlink
    BY <1>e, <1>m, <2>2, ElsewhereStep DEF Unlink
  <2>3. CASE Reconcile
    <3>1. PICK place \in Elsewhere : Goto("main", place)
      <4>1. CASE config = Torn
        BY <1>v, <2>3, <4>1 DEF Reconcile
      <4>2. CASE config # Torn
        <5>1. Goto("main", Onward([config EXCEPT !.code = IF HasCreds THEN None ELSE @]))
          BY <2>3, <4>2 DEF Reconcile
        <5> QED
          BY <1>m, <1>o, <5>1
      <4> QED
        BY <4>1, <4>2
    <3> QED
      BY <1>m, <2>3, <3>1, ElsewhereStep DEF Reconcile
  <2>4. CASE NoMoreZones \/ ZoneFails
    BY <1>e, <1>m, <2>4, ElsewhereStep DEF NoMoreZones, ZoneFails
  <2> QED
    BY <1>2, <2>1, <2>2, <2>3, <2>4
<1>3. CASE WaitCode \/ PopZone \/ Complete \/ Check
  <2>1. CASE WaitCode
    <3>1. PICK place \in Elsewhere : Goto("main", place)
      BY <1>e, <1>v, <2>1 DEF WaitCode
    <3> QED
      BY <1>m, <2>1, <3>1, ElsewhereStep DEF WaitCode
  <2>2. CASE PopZone \/ Complete
    BY <1>e, <1>m, <2>2, ElsewhereStep DEF PopZone, Complete
  <2>3. CASE Check
    <3>1. PICK place \in Elsewhere : Goto("main", place)
      BY <1>e, <1>v, <2>3 DEF Check
    <3> QED
      BY <1>m, <2>3, <3>1, ElsewhereStep DEF Check
  <2> QED
    BY <1>3, <2>1, <2>2, <2>3
<1>4. CASE CreateZone
  <2>1. CASE Goto("main", "failed") \/ Goto("main", "popZone")
    BY <1>e, <1>m, <1>4, <2>1, ElsewhereStep DEF CreateZone
  <2> QED
    BY <1>4, <2>1 DEF CreateZone
<1>5. CASE WaitFinish \/ Failed \/ Reload
  <2>1. CASE WaitFinish
    <3>1. PICK place \in Elsewhere : Goto("main", place)
      BY <1>e, <1>v, <2>1 DEF WaitFinish
    <3> QED
      BY <1>m, <2>1, <3>1, ElsewhereStep DEF WaitFinish
  <2>2. CASE Failed
    BY <1>e, <1>m, <2>2, ElsewhereStep DEF Failed
  <2>3. CASE Reload
    BY <1>o, <1>m, <2>3, ElsewhereStep DEF Reload
  <2> QED
    BY <1>5, <2>1, <2>2, <2>3
<1>6. CASE Start
  <2>1. UNCHANGED <<creds, key, reply, recent>>
    BY <1>6 DEF Start
  <2>2. CASE HasCreds
    <3>1. PICK place \in Elsewhere : Goto("main", place)
      BY <1>n, <1>m, <1>6, <2>2 DEF Start
    <3> QED
      BY <1>m, <2>1, <3>1, ElsewhereStep
  <2>3. CASE ~HasCreds
    <3>1. PICK place \in {"claim", "failed"} : Goto("main", place)
      BY <1>6, <2>3 DEF Start
    <3>2. place \in Places
      BY DEF Places, Pairing
    <3> QED
      BY <1>m, <2>1, <2>3, <3>1, <3>2, GotoMoves DEF CredentialsInv, CredentialsWork, HasCreds, Storing
  <2> QED
    BY <2>2, <2>3
<1>7. CASE MarkComplete \/ Revert \/ SaveComplete \/ SaveSources
  <2>1. PICK place \in Elsewhere : Goto("page", place)
    BY <1>e, <1>7 DEF MarkComplete, Revert, SaveComplete, SaveSources
  <2> QED
    BY <1>m, <1>7, <2>1, ElsewhereStep DEF MarkComplete, Revert, SaveComplete, SaveSources
<1>8. CASE RequestClaim
  <2>1. ~HasCreds /\ Goto("page", "claim") /\ UNCHANGED <<creds, key, reply, recent>>
    BY <1>8 DEF RequestClaim, Ask
  <2>2. "claim" \in Places
    BY DEF Places, Pairing
  <2> QED
    BY <1>m, <2>1, <2>2, GotoMoves DEF CredentialsInv, CredentialsWork, HasCreds, Storing
<1>9. CASE RequestSources \/ RequestAdd \/ RequestUpdate \/ RequestRemove \/ RequestBulkDelete
  <2>1. PICK place \in Elsewhere : Goto("page", place)
    BY <1>e, <1>9 DEF RequestSources, RequestAdd, RequestUpdate, RequestRemove, RequestBulkDelete
  <2>2. UNCHANGED <<creds, key, reply, recent>>
    BY <1>9 DEF RequestSources, RequestAdd, RequestUpdate, RequestRemove, RequestBulkDelete, Ask
  <2> QED
    BY <1>m, <2>1, <2>2, ElsewhereStep
<1>10. CASE SkipSources \/ FinishZones
  BY <1>10, NoNewClaim DEF SkipSources, FinishZones, local, CredentialsInv
<1>11. CASE Crash
  <2>1. pc' \in [Actors -> Places] /\ \A a \in Actors : pc'[a] \in {"boot", "idle"}
    BY <1>11 DEF Crash, Restarted, Places
  <2>2. UNCHANGED <<creds, key, recent>>
    BY <1>11 DEF Crash
  <2> QED
    BY <2>1, <2>2 DEF CredentialsInv, CredentialsWork, HasCreds, Storing
<1>12. CASE TwoMinutes
  <2>1. /\ \A a \in Actors : pc[a] \notin Storing /\ (HasCreds => pc[a] # "claim")
        /\ UNCHANGED <<creds, key, reply, pc>>
    BY <1>12 DEF TwoMinutes, Storing, local
  <2> QED
    BY <2>1 DEF CredentialsInv, CredentialsWork, HasCreds
<1>13. CASE Heartbeat
  BY <1>13, NoNewClaim DEF Heartbeat, local, CredentialsInv
<1>14. CASE UNCHANGED vars
  BY <1>14, NoNewClaim DEF vars, local, CredentialsInv
<1> QED
  BY <1>m, <1>1, <1>2, <1>3, <1>4, <1>5, <1>6, <1>7, <1>8, <1>9, <1>10, <1>11, <1>12, <1>13, <1>14
     DEF Next, Main, Page, Operator

\* Whatever main, the page, a crash or a lost answer does, a connector that
\* holds credentials holds the ones the backend accepts.
THEOREM CredentialsAlwaysWork == Spec => []CredentialsWork
<1>1. CredentialsInv => CredentialsWork
  BY DEF CredentialsInv
<1> QED
  BY InitCredentialsInv, CredentialsStep, <1>1, PTL DEF Spec
-----------------------------------------------------------------------------
(* Zones.                                                                  *)

\* A file that can be read.
Readable(w) ==
    /\ w = [sources |-> w.sources, cams |-> w.cams, pending |-> w.pending,
            code |-> w.code, complete |-> w.complete]
    /\ w.sources \in Seq(Sources) /\ w.pending \in Seq(Zones)

\* A copy of the file with this list of sources, that holds every zone which is
\* not among those done.
Drawn(z, list) == <<z, list[IndexOf[z]]>>
Keeps(w, list, done) ==
    /\ Readable(w) /\ w.sources = list
    /\ \A z \in Zones : z \in ToSet(w.pending) \/ Drawn(z, list) \in done

Untouched == ~edited /\ ~torn
Ordinary  == Places \ {"boot", "unlink", "reconcile", "popZone"}

\* Main and the page have a copy unless they have yet to load the file.
ArrivalInv ==
    /\ pc \in [Actors -> Places]
    /\ Untouched =>
        /\ DOMAIN mine = Actors
        /\ Keeps(config, config.sources, placed)
        /\ \A z \in Zones : IndexOf[z] \in 1..Len(config.sources)
        /\ pc["main"] \notin {"unlink", "reconcile"}
        /\ pc["main"] # "boot" => Keeps(mine["main"], config.sources, placed)
        /\ pc["page"] # "idle" => Keeps(mine["page"], config.sources, placed)
        /\ pc["main"] = "popZone" => w0.pending # <<>> /\ Drawn(Zone, config.sources) \in placed

\* The initial states: the file holds every zone, on a source of its list.
LEMMA InitArrivalInv == Init => ArrivalInv
<1> SUFFICES ASSUME Init PROVE ArrivalInv
  OBVIOUS
<1>1. pc \in [Actors -> Places] /\ DOMAIN mine = Actors
      /\ pc["main"] = "boot" /\ pc["page"] = "idle"
  BY DEF Init, Restarted, Places, Actors
<1>2. PICK s \in SeqOf(Sources, Cardinality(Sources)),
           drawn \in SeqOf(Zones, Cardinality(Zones)), c \in Codes \cup {None} :
        /\ config = [sources |-> s, cams |-> {}, pending |-> drawn,
                     code |-> c, complete |-> FALSE]
        /\ ToSet(drawn) = Zones
        /\ \A z \in Zones : IndexOf[z] <= Len(s)
  BY DEF Init
<1>3. s \in Seq(Sources) /\ drawn \in Seq(Zones)
  BY DEF SeqOf
<1>4. Keeps(config, config.sources, placed)
  BY <1>2, <1>3 DEF Keeps, Readable
<1>5. \A z \in Zones : IndexOf[z] \in 1..Len(config.sources)
  BY <1>2, <1>3, ProvisioningAssumption
<1> QED
  BY <1>1, <1>4, <1>5 DEF ArrivalInv

\* A file that can be read is not the unreadable one.
LEMMA ReadableIsNotTorn == ASSUME NEW w, Readable(w) PROVE w # Torn
<1>1. "sources" \in DOMAIN w
  BY DEF Readable
<1>2. "sources" \notin DOMAIN Torn
  BY DEF Torn
<1> QED
  BY <1>1, <1>2

\* Copies that differ in neither the sources nor the zones keep the same zones,
\* as long as what is done stays done.
LEMMA KeepsOn ==
  ASSUME NEW w, NEW v, NEW list, NEW done, NEW more,
         Keeps(w, list, done), Readable(v), v.sources = w.sources, v.pending = w.pending,
         \A z \in Zones : Drawn(z, list) \in done => Drawn(z, list) \in more
  PROVE  Keeps(v, list, more)
  BY DEF Keeps

\* The fields main and the page change between two loads of the file, one by one
\* and as they change them together.
LEMMA FieldChanges ==
  ASSUME NEW w, NEW list, NEW done, Keeps(w, list, done), NEW v, NEW x,
         \/ v = [w EXCEPT !.code = x]
         \/ v = [w EXCEPT !.complete = x]
         \/ v = [w EXCEPT !.cams = x]
         \/ v = [w EXCEPT !.sources = x] /\ x = list
  PROVE  Keeps(v, list, done)
<1>1. PICK m, p, c, b :
         w = [sources |-> list, cams |-> m, pending |-> p, code |-> c, complete |-> b]
  BY DEF Keeps, Readable
<1>2. PICK n, d, e :
         v = [sources |-> list, cams |-> n, pending |-> p, code |-> d, complete |-> e]
  <2>1. CASE v = [w EXCEPT !.code = x]
    BY <1>1, <2>1
  <2>2. CASE v = [w EXCEPT !.complete = x]
    BY <1>1, <2>2
  <2>3. CASE v = [w EXCEPT !.cams = x]
    BY <1>1, <2>3
  <2>4. CASE v = [w EXCEPT !.sources = x] /\ x = list
    BY <1>1, <2>4
  <2> QED
    BY <2>1, <2>2, <2>3, <2>4
<1>3. list \in Seq(Sources) /\ p \in Seq(Zones)
      /\ \A z \in Zones : z \in ToSet(p) \/ Drawn(z, list) \in done
  BY <1>1 DEF Keeps, Readable
<1> QED
  BY <1>2, <1>3 DEF Keeps, Readable

\* Two fields at a time, and three.
LEMMA Variations ==
  ASSUME NEW w, NEW list, NEW done, Keeps(w, list, done), NEW v, NEW x, NEW y,
         \/ v = [w EXCEPT !.code = x, !.complete = y]
         \/ v = [w EXCEPT !.sources = list, !.cams = x]
         \/ v = [w EXCEPT !.sources = list, !.cams = x, !.complete = y]
  PROVE  Keeps(v, list, done)
<1>1. CASE v = [w EXCEPT !.code = x, !.complete = y]
  <2>1. PICK u : u = [w EXCEPT !.code = x]
    OBVIOUS
  <2>2. v = [u EXCEPT !.complete = y]
    BY <1>1, <2>1
  <2> QED
    BY <2>1, <2>2, FieldChanges
<1>2. CASE v = [w EXCEPT !.sources = list, !.cams = x]
  <2>1. PICK u : u = [w EXCEPT !.sources = list]
    OBVIOUS
  <2>2. v = [u EXCEPT !.cams = x]
    BY <1>2, <2>1
  <2> QED
    BY <2>1, <2>2, FieldChanges
<1>3. CASE v = [w EXCEPT !.sources = list, !.cams = x, !.complete = y]
  <2>1. PICK u : u = [w EXCEPT !.sources = list]
    OBVIOUS
  <2>2. PICK t : t = [u EXCEPT !.cams = x]
    OBVIOUS
  <2>3. v = [t EXCEPT !.complete = y]
    BY <1>3, <2>1, <2>2
  <2> QED
    BY <2>1, <2>2, <2>3, FieldChanges
<1> QED
  BY <1>1, <1>2, <1>3

\* An actor's step that keeps the zones of the file and of its own copy.
LEMMA ActorKeeps ==
  ASSUME ArrivalInv, Untouched, NEW a \in Actors,
         NEW place \in Ordinary, Goto(a, place),
         NEW w, Copy(a, w) \/ (UNCHANGED mine /\ w = mine[a]),
         \A z \in Zones : Drawn(z, config.sources) \in placed => Drawn(z, config.sources) \in placed',
         Keeps(config', config.sources, placed'),
         a = "main" \/ place # "idle" => Keeps(w, config.sources, placed')
  PROVE  ArrivalInv'
<1>1. /\ pc' \in [Actors -> Places] /\ pc'[a] = place
      /\ place \notin {"boot", "unlink", "reconcile", "popZone"}
      /\ \A b \in Actors \ {a} : pc'[b] = pc[b]
  BY DEF ArrivalInv, Goto, Ordinary
<1>2. /\ DOMAIN mine' = Actors /\ mine'[a] = w
      /\ \A b \in Actors \ {a} : mine'[b] = mine[b]
  BY DEF ArrivalInv, Copy
<1>3. config'.sources = config.sources
  BY DEF Keeps
<1>4. \A v : Keeps(v, config.sources, placed) => Keeps(v, config.sources, placed')
  BY DEF Keeps
<1>5. CASE a = "main"
  <2>1. "page" \in Actors \ {a}
    BY <1>5 DEF Actors
  <2>2. pc'["page"] # "idle" => Keeps(mine'["page"], config.sources, placed')
    BY <1>1, <1>2, <1>4, <2>1 DEF ArrivalInv
  <2> QED
    BY <1>1, <1>2, <1>3, <1>5, <2>2 DEF ArrivalInv
<1>6. CASE a = "page"
  <2>1. "main" \in Actors \ {a}
    BY <1>6 DEF Actors
  <2>2. pc'["main"] = pc["main"] /\ mine'["main"] = mine["main"]
    BY <1>1, <1>2, <2>1
  <2>3. pc'["main"] # "boot" => Keeps(mine'["main"], config.sources, placed')
    BY <1>4, <2>2 DEF ArrivalInv
  <2>4. pc'["main"] = "popZone" =>
          /\ mine["main"].pending # <<>>
          /\ Drawn(Head(mine["main"].pending), config.sources) \in placed'
    <3> SUFFICES ASSUME pc["main"] = "popZone"
                 PROVE  /\ mine["main"].pending # <<>>
                        /\ Drawn(Head(mine["main"].pending), config.sources) \in placed'
      BY <2>2
    <3>1. mine["main"].pending \in Seq(Zones) /\ mine["main"].pending # <<>>
          /\ Drawn(Head(mine["main"].pending), config.sources) \in placed
      BY DEF ArrivalInv, Keeps, Readable, w0, Zone
    <3> QED
      BY <3>1
  <2> QED
    BY <1>1, <1>2, <1>3, <1>6, <2>2, <2>3, <2>4 DEF ArrivalInv, w0, Zone
<1> QED
  BY <1>5, <1>6 DEF Actors

\* Loading the file gives the file, and a copy that was taken keeps the zones.
LEMMA Copies ==
  ASSUME ArrivalInv, Untouched
  PROVE  /\ config # Torn /\ Load = config /\ Keeps(Load, config.sources, placed)
         /\ \A a \in Actors : pc[a] \notin {"boot", "idle"} =>
                Keeps(mine[a], config.sources, placed)
<1>1. config # Torn
  BY ReadableIsNotTorn DEF ArrivalInv, Keeps
<1> QED
  BY <1>1 DEF ArrivalInv, Load, Actors

\* A step of an actor that only moves it on, or writes its copy unchanged.
LEMMA MovesOn ==
  ASSUME ArrivalInv, Untouched, NEW a \in Actors, NEW place \in Ordinary, Goto(a, place),
         pc[a] \notin {"boot", "idle"},
         UNCHANGED <<config, mine, placed>>
  PROVE  ArrivalInv'
BY Copies, ActorKeeps DEF ArrivalInv

\* An actor saves a copy that keeps the zones.
LEMMA Saves ==
  ASSUME ArrivalInv, Untouched, NEW a \in Actors, NEW place \in Ordinary, Goto(a, place),
         NEW w, Keeps(w, config.sources, placed), Save(a, w), UNCHANGED placed
  PROVE  ArrivalInv'
BY ActorKeeps DEF Save

\* The workflow's steps change neither the list of sources nor the zones of a
\* copy; finalizing keeps the zones of the cameras it is sent.
LEMMA WorkflowKeeps ==
  ASSUME ArrivalInv, Untouched, NEW a \in Actors, Workflow(a)
  PROVE  ArrivalInv'
<1>e. {"idle", "failed", "failedUsed", "storeId", "storeKey", "saveClaim", "create",
       "checkpoint", "complete", "saveSources", "saveComplete"} \subseteq Ordinary
  BY DEF Ordinary, Places, Pairing
<1>n. \A w : NextStep(a, w) \in Ordinary /\ OnError(a) \in Ordinary
  BY DEF NextStep, OnError, Ordinary, Places, Pairing
<1>0. pc[a] \in {"claim", "storeId", "storeKey", "saveClaim", "create", "checkpoint", "finalize"}
  BY DEF Workflow, ClaimRefused, ClaimUnreachable, Claim, StoreId, StoreKey, SaveClaim,
         CreateCamera, CreateFails, Checkpoint, Finalize, FinalizeFails
<1>k. Keeps(mine[a], config.sources, placed)
  BY <1>0, Copies
<1>1. CASE ClaimRefused(a) \/ ClaimUnreachable(a)
  <2>1. PICK place \in Ordinary : Goto(a, place)
    BY <1>e, <1>1 DEF ClaimRefused, ClaimUnreachable
  <2>2. UNCHANGED <<config, mine, placed>>
    BY <1>1, Copies DEF ClaimRefused, ClaimUnreachable, Noted, backend
  <2> QED
    BY <1>0, <2>1, <2>2, MovesOn
<1>2. CASE Claim(a)
  <2>1. PICK place \in Ordinary : Goto(a, place)
    BY <1>e, <1>2 DEF Claim
  <2>2. UNCHANGED <<config, mine, placed>>
    BY <1>2, Copies DEF Claim, Noted
  <2> QED
    BY <1>0, <2>1, <2>2, MovesOn
<1>3. CASE StoreId(a) \/ StoreKey(a)
  <2>1. PICK place \in Ordinary : Goto(a, place)
    BY <1>e, <1>3 DEF StoreId, StoreKey
  <2>2. UNCHANGED <<config, mine, placed>>
    BY <1>3 DEF StoreId, StoreKey, file, backend
  <2> QED
    BY <1>0, <2>1, <2>2, MovesOn
<1>4. CASE SaveClaim(a)
  <2>1. PICK place \in Ordinary : Goto(a, place)
    BY <1>e, <1>n, <1>4 DEF SaveClaim
  <2>2. PICK w : w = [mine[a] EXCEPT !.code = None, !.complete = FALSE]
    OBVIOUS
  <2>3. Save(a, w) /\ UNCHANGED placed
    BY <1>4, <2>2 DEF SaveClaim, backend
  <2>4. Keeps(w, config.sources, placed)
    BY <1>k, <2>2, Variations
  <2> QED
    BY <2>1, <2>3, <2>4, Saves
<1>5. CASE CreateCamera(a)
  <2>1. PICK s : \/ Copy(a, [mine[a] EXCEPT !.cams = mine[a].cams \cup {s}])
                 \/ UNCHANGED mine
    BY <1>5 DEF CreateCamera
  <2>2. PICK place \in Ordinary : Goto(a, place)
    BY <1>e, <1>n, <1>5 DEF CreateCamera
  <2>3. PICK w : w = [mine[a] EXCEPT !.cams = mine[a].cams \cup {s}]
    OBVIOUS
  <2>4. Keeps(w, config.sources, placed) /\ UNCHANGED <<config, placed>>
    <3>1. UNCHANGED <<config, placed>>
      BY <1>5 DEF CreateCamera, file
    <3> QED
      BY <1>k, <2>3, <3>1, FieldChanges
  <2>5. CASE UNCHANGED mine
    BY <1>0, <2>2, <2>4, <2>5, MovesOn
  <2>6. CASE Copy(a, w)
    BY <2>2, <2>4, <2>6, ActorKeeps DEF ArrivalInv
  <2> QED
    BY <2>1, <2>3, <2>5, <2>6
<1>6. CASE CreateFails(a) \/ FinalizeFails(a)
  <2>1. Goto(a, OnError(a)) /\ UNCHANGED <<config, mine, placed>>
    BY <1>6 DEF CreateFails, FinalizeFails, file, backend
  <2> QED
    BY <1>0, <1>n, <2>1, MovesOn
<1>7. CASE Checkpoint(a)
  <2>1. PICK w : w = [mine[a] EXCEPT !.complete = FALSE]
    OBVIOUS
  <2>2. Save(a, w) /\ Goto(a, NextStep(a, mine[a])) /\ UNCHANGED placed
    BY <1>7, <2>1 DEF Checkpoint, backend
  <2>3. Keeps(w, config.sources, placed)
    BY <1>k, <2>1, FieldChanges
  <2> QED
    BY <1>n, <2>2, <2>3, Saves
<1>8. CASE Finalize(a)
  <2>1. PICK place \in Ordinary : Goto(a, place)
    BY <1>e, <1>n, <1>8 DEF Finalize
  <2>2. /\ attached' = Sent(mine[a]) /\ placed' = {p \in placed : p[2] \in attached'}
        /\ UNCHANGED <<config, mine>>
    BY <1>8 DEF Finalize, file
  <2>3. \A z \in Zones : config.sources[IndexOf[z]] \in Sent(mine[a])
    <3>1. mine[a].sources = config.sources /\ config.sources \in Seq(Sources)
      BY <1>k DEF Keeps, Readable
    <3>2. \A z \in Zones : IndexOf[z] \in DOMAIN config.sources
      BY <3>1 DEF ArrivalInv
    <3> QED
      BY <3>1, <3>2 DEF Sent, ToSet
  <2>4. \A z \in Zones : Drawn(z, config.sources) \in placed => Drawn(z, config.sources) \in placed'
    BY <2>2, <2>3 DEF Drawn
  <2>5. Keeps(config, config.sources, placed') /\ Keeps(mine[a], config.sources, placed')
    BY <1>k, <2>4 DEF Keeps, ArrivalInv
  <2> QED
    BY <2>1, <2>2, <2>4, <2>5, ActorKeeps
<1> QED
  BY <1>1, <1>2, <1>3, <1>4, <1>5, <1>6, <1>7, <1>8 DEF Workflow

\* What is in a sequence is its head or in its tail.
LEMMA HeadOrTail ==
  ASSUME NEW S, NEW q \in Seq(S), q # <<>>, NEW x \in ToSet(q)
  PROVE  Head(q) \in S /\ Tail(q) \in Seq(S) /\ (x = Head(q) \/ x \in ToSet(Tail(q)))
<1>1. PICK i \in 1..Len(q) : x = q[i]
  BY DEF ToSet
<1>2. Len(q) \in Nat \ {0} /\ Head(q) = q[1] /\ Head(q) \in S /\ Tail(q) \in Seq(S)
      /\ Len(Tail(q)) = Len(q) - 1
  OBVIOUS
<1>3. CASE i = 1
  BY <1>1, <1>2, <1>3
<1>4. CASE i # 1
  <2>1. i - 1 \in 1..Len(Tail(q)) /\ Tail(q)[i - 1] = x
    BY <1>1, <1>2, <1>4
  <2>2. i - 1 \in DOMAIN Tail(q)
    BY <1>2, <2>1
  <2> QED
    BY <1>2, <2>1, <2>2 DEF ToSet
<1> QED
  BY <1>3, <1>4

\* Sending a zone puts it with the camera of its source; only then it leaves the
\* file.
LEMMA ZoneStepsKeep ==
  ASSUME ArrivalInv, Untouched, NoMoreZones \/ CreateZone \/ ZoneFails \/ PopZone,
         pc' \in [Actors -> Places]
  PROVE  ArrivalInv'
<1>e. {"failed", "finalize", "zones"} \subseteq Ordinary /\ "main" \in Actors /\ "page" \in Actors
  BY DEF Ordinary, Places, Pairing, Actors
<1>0. pc["main"] \in {"zones", "popZone"}
  BY DEF NoMoreZones, CreateZone, ZoneFails, PopZone, At
<1>k. Keeps(w0, config.sources, placed) /\ w0.sources = config.sources /\ w0.pending \in Seq(Zones)
  <2>1. Keeps(mine["main"], config.sources, placed)
    BY <1>0, <1>e, Copies
  <2> QED
    BY <2>1 DEF w0, Keeps, Readable
<1>1. CASE NoMoreZones \/ ZoneFails
  <2>1. PICK place \in Ordinary : Goto("main", place)
    BY <1>e, <1>1 DEF NoMoreZones, ZoneFails
  <2>2. UNCHANGED <<config, mine, placed>>
    BY <1>1 DEF NoMoreZones, ZoneFails, file, backend
  <2> QED
    BY <1>0, <1>e, <2>1, <2>2, MovesOn
<1>2. CASE CreateZone
  <2>1. /\ w0.pending # <<>> /\ placed' = placed \cup {Drawn(Zone, config.sources)}
        /\ UNCHANGED <<config, mine>>
    BY <1>k, <1>2 DEF CreateZone, Drawn, ZoneAt, file
  <2>2. \A v : Keeps(v, config.sources, placed) => Keeps(v, config.sources, placed')
    BY <2>1 DEF Keeps
  <2>3. CASE Goto("main", "failed")
    <3>1. Keeps(config', config.sources, placed') /\ Keeps(mine["main"], config.sources, placed')
      BY <1>k, <2>1, <2>2 DEF ArrivalInv, w0
    <3> QED
      BY <1>e, <2>1, <2>3, <3>1, ActorKeeps
  <2>4. CASE Goto("main", "popZone")
    <3>1. pc'["main"] = "popZone" /\ pc'["page"] = pc["page"]
      BY <1>e, <2>4 DEF Goto, ArrivalInv
    <3>2. w0' = w0 /\ Zone' = Zone /\ Drawn(Zone, config.sources)' \in placed'
      BY <2>1 DEF w0, Zone, Drawn
    <3>3. Keeps(config, config.sources, placed)' /\ Keeps(mine["main"], config.sources, placed)'
      BY <1>k, <2>1, <2>2 DEF ArrivalInv, w0
    <3>4. pc["page"] # "idle" => Keeps(mine["page"], config.sources, placed')
      BY <2>2 DEF ArrivalInv
    <3> QED
      BY <2>1, <3>1, <3>2, <3>3, <3>4 DEF ArrivalInv
  <2> QED
    BY <1>2, <2>3, <2>4 DEF CreateZone
<1>3. CASE PopZone
  <2>0. PICK rest : rest = Tail(w0.pending)
    OBVIOUS
  <2>1. PICK w : w = [w0 EXCEPT !.pending = rest]
    OBVIOUS
  <2>2. Save("main", w) /\ Goto("main", "zones") /\ UNCHANGED placed
    BY <1>3, <2>0, <2>1 DEF PopZone, backend
  <2>3. w0.pending # <<>>
    BY <1>3 DEF PopZone, ArrivalInv, At
  <2>4. Zone \in Zones /\ rest \in Seq(Zones)
    BY <1>k, <2>0, <2>3 DEF Zone
  <2>5. Drawn(Zone, config.sources) \in placed
    <3>1. InList
      BY <1>k, <2>4 DEF ArrivalInv, InList
    <3> QED
      BY <1>3, <3>1 DEF PopZone, ArrivalInv, At
  <2>6. PICK m, p, c, b : w0 = [sources |-> config.sources, cams |-> m, pending |-> p,
                                code |-> c, complete |-> b]
    BY <1>k DEF Keeps, Readable
  <2>7. w = [sources |-> config.sources, cams |-> m, pending |-> rest, code |-> c, complete |-> b]
    BY <2>1, <2>6
  <2>8. ASSUME NEW z \in Zones, z \in ToSet(w0.pending), z \notin ToSet(rest)
        PROVE  Drawn(z, config.sources) \in placed
    BY <1>k, <2>0, <2>3, <2>5, <2>8, HeadOrTail DEF Zone
  <2>9. \A z \in Zones : z \in ToSet(w.pending) \/ Drawn(z, config.sources) \in placed
    BY <1>k, <2>7, <2>8 DEF Keeps
  <2>10. Keeps(w, config.sources, placed)
    BY <1>k, <2>4, <2>7, <2>9 DEF Keeps, Readable
  <2> QED
    BY <1>e, <2>2, <2>10, Saves
<1> QED
  BY <1>1, <1>2, <1>3

\* The other steps of main load the file or write their copy.
LEMMA MainKeeps ==
  ASSUME ArrivalInv, Untouched, Untouched',
         ApplyUpdate \/ Unlink \/ Reconcile \/ WaitCode \/ Start \/ Complete \/ Check
           \/ WaitFinish \/ Failed \/ Reload
  PROVE  ArrivalInv'
<1>e. {"waitFinish", "check", "claim", "failed", "reload", "start"} \subseteq Ordinary
      /\ "main" \in Actors
  BY DEF Ordinary, Places, Pairing, Actors
<1>n. \A w : NextStep("main", w) \in Ordinary /\ Onward(w) \in Ordinary
  BY DEF NextStep, Onward, Over, Ordinary, Places, Pairing
<1>v. Over \in Ordinary
  BY DEF Over, Ordinary, Places, Pairing
<1>k. pc["main"] \notin {"boot"} => Keeps(w0, config.sources, placed)
  BY DEF ArrivalInv, w0
<1>l. Load = config /\ config # Torn /\ Keeps(config, config.sources, placed)
  BY Copies
<1>1. CASE ApplyUpdate \/ Unlink
  BY <1>1 DEF ApplyUpdate, Unlink, ArrivalInv, Untouched, At
<1>2. CASE Reconcile
  <2>1. PICK w : w = [config EXCEPT !.code = IF HasCreds THEN None ELSE config.code]
    OBVIOUS
  <2>2. Save("main", w) /\ Goto("main", Onward(w)) /\ UNCHANGED placed
    BY <1>l, <1>2, <2>1 DEF Reconcile, backend
  <2>3. Keeps(w, config.sources, placed)
    BY <1>l, <2>1, FieldChanges
  <2> QED
    BY <1>e, <1>n, <2>2, <2>3, Saves
<1>3. CASE WaitCode \/ Check \/ Reload
  <2>1. PICK place \in Ordinary : Goto("main", place)
    BY <1>e, <1>n, <1>v, <1>3 DEF WaitCode, Check, Reload
  <2>2. (UNCHANGED mine \/ Copy("main", config)) /\ UNCHANGED <<config, placed>>
    BY <1>l, <1>3 DEF WaitCode, Check, Reload, file, backend
  <2>3. pc["main"] \notin {"boot", "idle"}
    BY <1>3 DEF WaitCode, Check, Reload, At
  <2>4. CASE UNCHANGED mine
    BY <1>e, <2>1, <2>2, <2>3, <2>4, MovesOn
  <2>5. CASE Copy("main", config)
    BY <1>e, <1>l, <2>1, <2>2, <2>5, ActorKeeps
  <2> QED
    BY <2>2, <2>4, <2>5
<1>4. CASE Start
  <2>0. pc["main"] \notin {"boot", "idle"} /\ UNCHANGED placed
    BY <1>4 DEF Start, At, backend
  <2>1. CASE ~HasCreds
    <3>1. UNCHANGED <<config, mine>> /\ \E place \in {"claim", "failed"} : Goto("main", place)
      BY <1>4, <2>1 DEF Start
    <3> QED
      BY <1>e, <2>0, <3>1, MovesOn
  <2>2. CASE HasCreds
    <3>1. PICK w : w = [w0 EXCEPT !.code = None]
      OBVIOUS
    <3>2. Save("main", w) /\ Goto("main", NextStep("main", w0))
      BY <1>4, <2>2, <3>1 DEF Start
    <3>3. Keeps(w, config.sources, placed)
      BY <1>k, <2>0, <3>1, FieldChanges
    <3> QED
      BY <1>e, <1>n, <2>0, <3>2, <3>3, Saves
  <2> QED
    BY <2>1, <2>2
<1>5. CASE Complete
  <2>1. PICK w : w = [w0 EXCEPT !.code = None, !.complete = TRUE]
    OBVIOUS
  <2>2. Save("main", w) /\ Goto("main", "check") /\ UNCHANGED placed /\ pc["main"] # "boot"
    BY <1>5, <2>1 DEF Complete, backend, At
  <2>3. Keeps(w, config.sources, placed)
    BY <1>k, <2>1, <2>2, Variations
  <2> QED
    BY <1>e, <2>2, <2>3, Saves
<1>6. CASE WaitFinish
  <2>1. PICK place \in Ordinary : Goto("main", place)
    BY <1>e, <1>v, <1>6 DEF WaitFinish
  <2>2. UNCHANGED <<config, mine, placed>> /\ pc["main"] \notin {"boot", "idle"}
    BY <1>6 DEF WaitFinish, file, backend, At
  <2> QED
    BY <1>e, <2>1, <2>2, MovesOn
<1>7. CASE Failed
  <2>1. CASE At("failedUsed") \/ HasCreds
    <3>1. Save("main", [w0 EXCEPT !.code = None])
      BY <1>7, <2>1 DEF Failed
    <3>2. Keeps([w0 EXCEPT !.code = None], config.sources, placed)
      BY <1>k, <1>7, FieldChanges DEF Failed, At
    <3> QED
      BY <1>e, <1>7, <3>1, <3>2, Saves DEF Failed, backend
  <2>2. CASE ~(At("failedUsed") \/ HasCreds)
    <3>1. Save("main", w0)
      BY <1>7, <2>2 DEF Failed
    <3>2. Keeps(w0, config.sources, placed)
      BY <1>k, <1>7 DEF Failed, At
    <3> QED
      BY <1>e, <1>7, <3>1, <3>2, Saves DEF Failed, backend
  <2> QED
    BY <2>1, <2>2
<1> QED
  BY <1>1, <1>2, <1>3, <1>4, <1>5, <1>6, <1>7

\* The page: what does not edit the sources.
LEMMA PageKeeps ==
  ASSUME ArrivalInv, Untouched,
         MarkComplete \/ Revert \/ SaveComplete \/ SaveSources \/ RequestClaim \/ FinishZones
  PROVE  ArrivalInv'
<1>e. {"idle", "finalize", "claim"} \subseteq Ordinary /\ "page" \in Actors
  BY DEF Ordinary, Places, Pairing, Actors
<1>k. pc["page"] # "idle" => Keeps(w1, config.sources, placed)
  BY DEF ArrivalInv, w1
<1>l. Load = config /\ Keeps(Load, config.sources, placed)
  BY Copies
<1>1. CASE MarkComplete \/ Revert \/ SaveComplete
  <2>1. PICK b \in BOOLEAN : Save("page", [w1 EXCEPT !.complete = b])
    BY <1>1 DEF MarkComplete, Revert, SaveComplete, Incomplete
  <2>2. UNCHANGED placed /\ pc["page"] # "idle" /\ \E place \in {"idle", "finalize"} : Goto("page", place)
    BY <1>1 DEF MarkComplete, Revert, SaveComplete, backend, PageAt
  <2>3. Keeps([w1 EXCEPT !.complete = b], config.sources, placed)
    BY <1>k, <2>2, FieldChanges
  <2> QED
    BY <1>e, <2>1, <2>2, <2>3, Saves
<1>2. CASE SaveSources
  <2>1. pc["page"] # "idle" /\ Goto("page", "idle") /\ UNCHANGED placed
    BY <1>2 DEF SaveSources, PageAt, backend
  <2>2. w1.sources = config.sources
    BY <1>k, <2>1 DEF Keeps
  <2>3. PICK u : u = [Load EXCEPT !.sources = w1.sources, !.cams = w1.cams]
    OBVIOUS
  <2>4. PICK w : w = [u EXCEPT !.complete = FALSE]
    OBVIOUS
  <2>5. Save("page", w)
    BY <1>2, <2>3, <2>4 DEF SaveSources, Incomplete
  <2>6. Keeps(u, config.sources, placed)
    BY <1>l, <2>2, <2>3, Variations
  <2>7. Keeps(w, config.sources, placed)
    BY <2>4, <2>6, FieldChanges
  <2> QED
    BY <1>e, <2>1, <2>5, <2>7, Saves
<1>3. CASE RequestClaim
  <2>1. PICK c : Save("page", [Load EXCEPT !.code = c])
    BY <1>3 DEF RequestClaim
  <2>2. Goto("page", "claim") /\ UNCHANGED placed
    BY <1>3 DEF RequestClaim, Ask, backend
  <2>3. Keeps([Load EXCEPT !.code = c], config.sources, placed)
    BY <1>l, FieldChanges
  <2> QED
    BY <1>e, <2>1, <2>2, <2>3, Saves
<1>4. CASE FinishZones
  <2>1. config' = Finished(Load) /\ UNCHANGED <<pc, mine, placed>>
    BY <1>4 DEF FinishZones, local, backend
  <2>2. PICK w : w = [Load EXCEPT !.code = None, !.complete = TRUE]
    OBVIOUS
  <2>3. config' = w
    BY <2>1, <2>2 DEF Finished
  <2>4. Keeps(config', config.sources, placed)
    BY <1>l, <2>2, <2>3, Variations
  <2>5. config'.sources = config.sources
    BY <2>4 DEF Keeps
  <2> QED
    BY <2>1, <2>4, <2>5 DEF ArrivalInv, w0, Zone
<1> QED
  BY <1>1, <1>2, <1>3, <1>4

\* Every step keeps the zones.
LEMMA ArrivalStep == ArrivalInv /\ CredentialsInv /\ CredentialsInv' /\ [Next]_vars => ArrivalInv'
<1> SUFFICES ASSUME ArrivalInv, CredentialsInv, CredentialsInv', [Next]_vars PROVE ArrivalInv'
  OBVIOUS
<1>p. pc' \in [Actors -> Places]
  BY DEF CredentialsInv
<1>a. SUFFICES ASSUME Untouched' PROVE ArrivalInv'
  BY <1>p DEF ArrivalInv
<1>1. CASE Main
  <2>1. Untouched
    <3>1. UNCHANGED history \/ edited'
      BY <1>1 DEF Main, Workflow, ClaimRefused, ClaimUnreachable, Claim, StoreId, StoreKey, SaveClaim,
         CreateCamera, CreateFails, Checkpoint, Finalize, FinalizeFails, ApplyUpdate, Unlink, Reconcile,
         WaitCode, Start, NoMoreZones, CreateZone, ZoneFails, PopZone, Complete, Check, WaitFinish,
         Failed, Reload
    <3> QED
      BY <1>a, <3>1 DEF history, Untouched
  <2> QED
    BY <1>1, <1>p, <1>a, <2>1, WorkflowKeeps, ZoneStepsKeep, MainKeeps DEF Main, Actors
<1>2. CASE Page \/ RequestClaim \/ FinishZones
  <2>1. Untouched
    <3>1. UNCHANGED <<edited, torn>>
      BY <1>2 DEF Page, Workflow, ClaimRefused, ClaimUnreachable, Claim, StoreId, StoreKey, SaveClaim,
         CreateCamera, CreateFails, Checkpoint, Finalize, FinalizeFails, MarkComplete, Revert,
         SaveComplete, SaveSources, RequestClaim, FinishZones, Ask, history
    <3> QED
      BY <1>a, <3>1 DEF Untouched
  <2> QED
    BY <1>2, <2>1, WorkflowKeeps, PageKeeps DEF Page, Actors
<1>3. CASE RequestSources \/ RequestAdd \/ RequestUpdate \/ RequestRemove \/ RequestBulkDelete
             \/ SkipSources
  BY <1>a, <1>3 DEF RequestSources, RequestAdd, RequestUpdate, RequestRemove, RequestBulkDelete,
     SkipSources, Edit, Untouched
<1>4. CASE Crash
  <2>1. UNCHANGED <<config, torn, edited, placed>>
    BY <1>a, <1>4 DEF Crash, Untouched, backend
  <2>2. pc'["main"] = "boot" /\ pc'["page"] = "idle" /\ DOMAIN mine' = Actors
    BY <1>4 DEF Crash, Restarted, Actors
  <2> QED
    BY <1>a, <1>p, <2>1, <2>2 DEF ArrivalInv, Untouched
<1>5. CASE TwoMinutes \/ Heartbeat \/ UNCHANGED vars
  <2>1. UNCHANGED <<config, mine, pc, placed, edited, torn>>
    BY <1>5 DEF TwoMinutes, Heartbeat, vars, file, local, history, backend
  <2> QED
    BY <1>a, <1>p, <2>1 DEF ArrivalInv, Untouched, w0, Zone
<1> QED
  BY <1>1, <1>2, <1>3, <1>4, <1>5 DEF Next, Operator

\* A zone drawn in the installer waits in the file or is with the camera of its
\* source, until the sources are edited or the file is torn.
THEOREM DrawnZonesArrive == Spec => []ZonesArrive
<1>1. ArrivalInv => ZonesArrive
  BY DEF ArrivalInv, ZonesArrive, Untouched, Keeps, Drawn
<1> QED
  BY InitCredentialsInv, CredentialsStep, InitArrivalInv, ArrivalStep, <1>1, PTL DEF Spec

-----------------------------------------------------------------------------
(* Types.  Main, the page and a lost answer never leave a list with a source     *)
(* twice or a camera id without its source.                                    *)

\* The lists of sources, and what a file that can be read holds.
Lists == {s \in SeqOf(Sources, Cardinality(Sources)) : IsInjective(s)}
Files == {w \in Configs : w.cams \subseteq Sent(w)}

\* No source is twice in a list, so a list is no longer than there are sources.
LEMMA ListsAreShort ==
  ASSUME NEW s \in Seq(Sources), IsInjective(s)
  PROVE  s \in Lists
<1>1. s \in [1..Len(s) -> Sources] /\ Len(s) \in Nat
  OBVIOUS
<1>2. s \in Injection(1..Len(s), Sources)
  BY <1>1 DEF Injection, IsInjective
<1>3. Cardinality(1..Len(s)) <= Cardinality(Sources)
  <2>1. IsFiniteSet(Sources)
    BY FiniteAssumption
  <2> QED
    BY <1>2, <2>1, FS_Injection, Zenon
<1>4. Cardinality(1..Len(s)) = Len(s)
  <2>1. 1 \in Int /\ Len(s) \in Int
    BY <1>1
  <2>2. Cardinality(1..Len(s)) = IF 1 > Len(s) THEN 0 ELSE Len(s) - 1 + 1
    BY <2>1, FS_Interval, Zenon
  <2> QED
    BY <1>1, <2>2
<1>5. Cardinality(Sources) \in Nat /\ Len(s) \in 0..Cardinality(Sources)
  <2>1. Cardinality(Sources) \in Nat
    BY FS_CardinalityType, FiniteAssumption, Zenon
  <2> QED
    BY <1>1, <1>3, <1>4, <2>1
<1> QED
  BY <1>1, <1>5 DEF Lists, SeqOf

\* What a list is to the provers.
LEMMA ListsAreSequences ==
  ASSUME NEW s \in Lists
  PROVE  s \in Seq(Sources) /\ IsInjective(s)
  BY DEF Lists, SeqOf

\* The edits of a list: a source at the end, another in its place, one less.
LEMMA AppendToList ==
  ASSUME NEW s \in Lists, NEW x \in Sources \ ToSet(s)
  PROVE  Append(s, x) \in Lists /\ ToSet(Append(s, x)) = ToSet(s) \cup {x}
<1>1. s \in Seq(Sources) /\ IsInjective(s)
  BY ListsAreSequences
<1> DEFINE t == Append(s, x)
<1>2. t \in Seq(Sources) /\ Len(t) = Len(s) + 1 /\ t[Len(s) + 1] = x
      /\ \A i \in 1..Len(s) : t[i] = s[i]
  BY <1>1
<1>3. \A i \in 1..Len(s) : s[i] # x
  BY <1>1 DEF ToSet
<1>4. IsInjective(t)
  BY <1>1, <1>2, <1>3 DEF IsInjective
<1>5. ToSet(t) = ToSet(s) \cup {x}
  BY <1>1, <1>2 DEF ToSet
<1> QED
  BY <1>2, <1>4, <1>5, ListsAreShort

\* A source in the place of another, or of itself.
LEMMA ReplaceInList ==
  ASSUME NEW s \in Lists, NEW i \in DOMAIN s, NEW x \in (Sources \ ToSet(s)) \cup {s[i]}
  PROVE  /\ [s EXCEPT ![i] = x] \in Lists
         /\ ToSet([s EXCEPT ![i] = x]) = (ToSet(s) \ {s[i]}) \cup {x}
<1>1. s \in Seq(Sources) /\ IsInjective(s)
  BY ListsAreSequences
<1> DEFINE t == [s EXCEPT ![i] = x]
<1>2. t \in Seq(Sources) /\ Len(t) = Len(s) /\ t[i] = x /\ i \in 1..Len(s)
      /\ \A j \in 1..Len(s) \ {i} : t[j] = s[j]
  BY <1>1
<1>3. \A j \in 1..Len(s) \ {i} : s[j] # x
  BY <1>1, <1>2 DEF ToSet, IsInjective
<1>4. IsInjective(t)
  BY <1>1, <1>2, <1>3 DEF IsInjective
<1>5. ToSet(t) = (ToSet(s) \ {s[i]}) \cup {x}
  BY <1>1, <1>2 DEF ToSet, IsInjective
<1> QED
  BY <1>2, <1>4, <1>5, ListsAreShort

\* One source less.
LEMMA RemoveFromList ==
  ASSUME NEW s \in Lists, NEW i \in DOMAIN s
  PROVE  RemoveAt(s, i) \in Lists /\ ToSet(RemoveAt(s, i)) = ToSet(s) \ {s[i]}
<1>1. s \in Seq(Sources) /\ IsInjective(s) /\ i \in 1..Len(s) /\ Len(s) \in Nat
  BY ListsAreSequences
<1> DEFINE t == RemoveAt(s, i)
<1>2. t \in Seq(Sources) /\ Len(t) = Len(s) - 1
      /\ \A j \in 1..Len(t) : t[j] = IF j < i THEN s[j] ELSE s[j + 1]
  <2> DEFINE before == SubSeq(s, 1, i - 1)
             after  == SubSeq(s, i + 1, Len(s))
  <2>1. before \in Seq(Sources) /\ Len(before) = i - 1 /\ \A j \in 1..(i - 1) : before[j] = s[j]
    BY <1>1
  <2>2. after \in Seq(Sources) /\ Len(after) = Len(s) - i /\ \A j \in 1..(Len(s) - i) : after[j] = s[i + j]
    BY <1>1
  <2>3. t = before \o after
    BY DEF RemoveAt
  <2> HIDE DEF before, after, t
  <2>4. t \in Seq(Sources) /\ Len(t) = Len(s) - 1
    BY <1>1, <2>1, <2>2, <2>3
  <2>5. ASSUME NEW j \in 1..Len(t) PROVE t[j] = IF j < i THEN s[j] ELSE s[j + 1]
    <3>1. CASE j < i
      BY <1>1, <2>1, <2>2, <2>3, <2>4, <3>1
    <3>2. CASE j >= i
      <4>1. t[j] = after[j - (i - 1)] /\ j - (i - 1) \in 1..(Len(s) - i)
        BY <1>1, <2>1, <2>2, <2>3, <2>4, <3>2
      <4>2. after[j - (i - 1)] = s[i + (j - (i - 1))] /\ i + (j - (i - 1)) = j + 1
        BY <1>1, <2>2, <4>1
      <4> QED
        BY <1>1, <2>4, <3>2, <4>1, <4>2
    <3> QED
      BY <1>1, <2>4, <3>1, <3>2
  <2> QED
    BY <2>4, <2>5
<1> HIDE DEF t
<1>4. IsInjective(t)
  <2> SUFFICES ASSUME NEW j \in 1..Len(t), NEW l \in 1..Len(t), t[j] = t[l] PROVE j = l
    BY <1>2 DEF IsInjective
  <2>1. PICK x \in 1..Len(s) : t[j] = s[x] /\ x = IF j < i THEN j ELSE j + 1
    BY <1>1, <1>2
  <2>2. PICK y \in 1..Len(s) : t[l] = s[y] /\ y = IF l < i THEN l ELSE l + 1
    BY <1>1, <1>2
  <2>3. \A a, b \in 1..Len(s) : s[a] = s[b] => a = b
    BY <1>1 DEF IsInjective
  <2>4. s[x] = s[y]
    BY <2>1, <2>2
  <2>5. x = y
    BY <2>3, <2>4
  <2> QED
    BY <1>1, <2>1, <2>2, <2>5
<1>5. ASSUME NEW x \in ToSet(t) PROVE x \in ToSet(s) \ {s[i]}
  BY <1>1, <1>2 DEF ToSet, IsInjective
<1>6. ASSUME NEW x \in ToSet(s) \ {s[i]} PROVE x \in ToSet(t)
  <2>1. PICK j \in 1..Len(s) : x = s[j] /\ j # i
    BY <1>1 DEF ToSet
  <2>2. PICK k \in 1..Len(t) : t[k] = x
    <3>1. CASE j < i
      BY <1>1, <1>2, <2>1, <3>1
    <3>2. CASE j > i
      <4>1. j - 1 \in 1..Len(t) /\ t[j - 1] = s[j]
        BY <1>1, <1>2, <2>1, <3>2
      <4> QED
        BY <2>1, <4>1
    <3> QED
      BY <1>1, <2>1, <3>1, <3>2
  <2> QED
    BY <1>2, <2>2 DEF ToSet
<1> QED
  BY <1>2, <1>4, <1>5, <1>6, ListsAreShort DEF t

-----------------------------------------------------------------------------
\* The pieces of a copy of the file.
LEMMA FileParts ==
  ASSUME NEW w \in Files
  PROVE  \E s \in Lists, m \in SUBSET Sources, p \in SeqOf(Zones, Cardinality(Zones)),
            c \in Codes \cup {None}, b \in BOOLEAN :
           /\ w = [sources |-> s, cams |-> m, pending |-> p, code |-> c, complete |-> b]
           /\ m \subseteq ToSet(s)
<1>1. /\ w = [sources |-> w.sources, cams |-> w.cams, pending |-> w.pending,
              code |-> w.code, complete |-> w.complete]
      /\ w.sources \in Lists /\ w.cams \in SUBSET Sources /\ w.cams \subseteq ToSet(w.sources)
      /\ w.pending \in SeqOf(Zones, Cardinality(Zones))
      /\ w.code \in Codes \cup {None} /\ w.complete \in BOOLEAN
  BY DEF Files, Configs, Lists, Sent
<1> QED
  BY <1>1, Zenon

\* The members of a list are sources.
LEMMA ListMembers == ASSUME NEW s \in Lists PROVE ToSet(s) \subseteq Sources
<1>1. s \in Seq(Sources)
  BY ListsAreSequences
<1> QED
  BY <1>1 DEF ToSet

\* A record of such pieces is a file.
LEMMA FileOf ==
  ASSUME NEW w, NEW s \in Lists, NEW m, NEW p \in SeqOf(Zones, Cardinality(Zones)),
         NEW c \in Codes \cup {None}, NEW b \in BOOLEAN, m \subseteq ToSet(s),
         w = [sources |-> s, cams |-> m, pending |-> p, code |-> c, complete |-> b]
  PROVE  w \in Files
<1>1. m \in SUBSET Sources
  BY ListMembers
<1> QED
  BY <1>1 DEF Files, Configs, Lists, Sent

\* What main and the page change in their copies, a field or two at a time.
LEMMA FieldsOfFile ==
  ASSUME NEW w \in Files, NEW c \in Codes \cup {None}, NEW b \in BOOLEAN,
         NEW m \in SUBSET Sent(w)
  PROVE  /\ [w EXCEPT !.code = c] \in Files
         /\ [w EXCEPT !.complete = b] \in Files
         /\ [w EXCEPT !.code = c, !.complete = b] \in Files
         /\ [w EXCEPT !.cams = m] \in Files
<1>1. PICK s \in Lists, n \in SUBSET Sources, p \in SeqOf(Zones, Cardinality(Zones)),
           d \in Codes \cup {None}, e \in BOOLEAN :
         /\ w = [sources |-> s, cams |-> n, pending |-> p, code |-> d, complete |-> e]
         /\ n \subseteq ToSet(s)
  BY FileParts
<1>2. m \in SUBSET ToSet(s)
  BY <1>1 DEF Sent
<1>w. w = [sources |-> s, cams |-> n, pending |-> p, code |-> d, complete |-> e]
  BY <1>1
<1>3. [w EXCEPT !.code = c] = [sources |-> s, cams |-> n, pending |-> p, code |-> c, complete |-> e]
  BY <1>w
<1>4. [w EXCEPT !.complete = b] = [sources |-> s, cams |-> n, pending |-> p, code |-> d, complete |-> b]
  BY <1>w
<1>5. [w EXCEPT !.code = c, !.complete = b]
         = [sources |-> s, cams |-> n, pending |-> p, code |-> c, complete |-> b]
  <2>1. PICK u : u = [w EXCEPT !.code = c]
    OBVIOUS
  <2>2. u = [sources |-> s, cams |-> n, pending |-> p, code |-> c, complete |-> e]
    BY <1>w, <2>1
  <2>3. [w EXCEPT !.code = c, !.complete = b] = [u EXCEPT !.complete = b]
    BY <2>1
  <2> QED
    BY <2>2, <2>3
<1>6. [w EXCEPT !.cams = m] = [sources |-> s, cams |-> m, pending |-> p, code |-> d, complete |-> e]
  BY <1>w
<1> QED
  BY <1>1, <1>2, <1>3, <1>4, <1>5, <1>6, FileOf

\* The zone at the head of the list is taken off.
LEMMA TailOfFile ==
  ASSUME NEW w \in Files, w.pending # <<>>
  PROVE  [w EXCEPT !.pending = Tail(@)] \in Files /\ Head(w.pending) \in Zones
<1>1. PICK s \in Lists, n \in SUBSET Sources, p \in SeqOf(Zones, Cardinality(Zones)),
           d \in Codes \cup {None}, e \in BOOLEAN :
         /\ w = [sources |-> s, cams |-> n, pending |-> p, code |-> d, complete |-> e]
         /\ n \subseteq ToSet(s)
  BY FileParts
<1>2. Cardinality(Zones) \in Nat
  BY FS_CardinalityType, FiniteAssumption, Zenon
<1>3. p \in Seq(Zones) /\ Len(p) <= Cardinality(Zones) /\ p # <<>>
  BY <1>1, <1>2 DEF SeqOf
<1>4. PICK q : q = Tail(p)
  OBVIOUS
<1>5. q \in Seq(Zones) /\ Len(q) = Len(p) - 1 /\ Len(p) \in Nat \ {0} /\ Head(p) \in Zones
  BY <1>3, <1>4
<1>6. q \in SeqOf(Zones, Cardinality(Zones))
  <2>1. Len(q) \in 0..Cardinality(Zones)
    BY <1>2, <1>3, <1>5
  <2>2. q \in [1..Len(q) -> Zones]
    BY <1>5
  <2> QED
    BY <2>1, <2>2 DEF SeqOf
<1>w. w = [sources |-> s, cams |-> n, pending |-> p, code |-> d, complete |-> e]
  BY <1>1
<1>7. [w EXCEPT !.pending = Tail(@)]
         = [sources |-> s, cams |-> n, pending |-> q, code |-> d, complete |-> e]
  <2>1. Tail(w.pending) = q
    BY <1>w, <1>4
  <2>2. [w EXCEPT !.pending = Tail(@)] = [w EXCEPT !.pending = q]
    BY <2>1
  <2>3. [w EXCEPT !.pending = q] = [sources |-> s, cams |-> n, pending |-> q, code |-> d, complete |-> e]
    BY <1>w
  <2> QED
    BY <2>2, <2>3
<1>8. [w EXCEPT !.pending = Tail(@)] \in Files
  BY <1>1, <1>6, <1>7, FileOf
<1>9. w.pending = p
  BY <1>w
<1> QED
  BY <1>5, <1>8, <1>9

\* The edits of the sources, with the cameras that go with them.
LEMMA EditsOfFile ==
  ASSUME NEW w \in Files, NEW s \in Lists, NEW m \in SUBSET ToSet(s), NEW b \in BOOLEAN
  PROVE  /\ [w EXCEPT !.sources = s, !.cams = m] \in Files
         /\ [w EXCEPT !.sources = s, !.cams = m, !.complete = b] \in Files
<1>1. PICK t \in Lists, n \in SUBSET Sources, p \in SeqOf(Zones, Cardinality(Zones)),
           d \in Codes \cup {None}, e \in BOOLEAN :
         /\ w = [sources |-> t, cams |-> n, pending |-> p, code |-> d, complete |-> e]
         /\ n \subseteq ToSet(t)
  BY FileParts
<1>w. w = [sources |-> t, cams |-> n, pending |-> p, code |-> d, complete |-> e]
  BY <1>1
<1>2. PICK u : u = [w EXCEPT !.sources = s]
  OBVIOUS
<1>3. u = [sources |-> s, cams |-> n, pending |-> p, code |-> d, complete |-> e]
  BY <1>w, <1>2
<1>4. PICK v : v = [u EXCEPT !.cams = m]
  OBVIOUS
<1>5. v = [sources |-> s, cams |-> m, pending |-> p, code |-> d, complete |-> e]
  BY <1>3, <1>4
<1>6. [w EXCEPT !.sources = s, !.cams = m] = v
  BY <1>2, <1>4
<1>7. [w EXCEPT !.sources = s, !.cams = m, !.complete = b] = [v EXCEPT !.complete = b]
  BY <1>2, <1>4
<1>8. [v EXCEPT !.complete = b] = [sources |-> s, cams |-> m, pending |-> p, code |-> d, complete |-> b]
  BY <1>5
<1> QED
  BY <1>5, <1>6, <1>7, <1>8, FileOf

-----------------------------------------------------------------------------
(* The inductive invariant.  FilesInv: each copy of the file is one, a claim has *)
(* a code, a zone that is popped is there, a camera is asked for a source of     *)
(* the copy.  BackendInv: a key for each code consumed.                          *)

Kinds == {None, "claim", "sources", "add", "update", "remove", "bulk"}

FilesInv ==
    /\ config \in Files \cup {Torn} /\ mine \in [Actors -> Files]
    /\ update \in SeqOf(Sources, 1)
    /\ target \in Sources \cup {None} /\ kind \in Kinds
    /\ \A a \in Actors : pc[a] = "claim" => mine[a].code \in Codes
    /\ pc["main"] = "popZone" => w0.pending # <<>>
    /\ pc["page"] \in {"create", "checkpoint"} => target = None \/ target \in Sent(w1)

BackendInv ==
    /\ used \subseteq Codes /\ key <= Cardinality(used) + 1
    /\ reply \in 0..key /\ creds.key <= key
    /\ recent \in BOOLEAN

CamerasInv == attached \subseteq Sources /\ placed \subseteq Zones \X attached

FlagsInv ==
    /\ ready \in BOOLEAN /\ edited \in BOOLEAN /\ torn \in BOOLEAN
    /\ edits \in 0..MaxEdits /\ faults \in 0..MaxFaults

TypeInv == FilesInv /\ BackendInv /\ CamerasInv /\ FlagsInv

\* Places that ask nothing of the copy an actor has.
Plain == Places \ {"claim", "popZone", "create", "checkpoint"}

\* An actor goes on with a copy it may write back.
LEMMA ActorFiles ==
  ASSUME FilesInv, pc \in [Actors -> Places], NEW a \in Actors, NEW place \in Places,
         NEW w \in Files, Goto(a, place), mine' = [mine EXCEPT ![a] = w],
         config' \in Files \cup {Torn}, update' \in SeqOf(Sources, 1),
         target' \in Sources \cup {None}, kind' \in Kinds,
         a = "main" => target' = target,
         place = "claim" => w.code \in Codes,
         a = "main" /\ place = "popZone" => w.pending # <<>>,
         a = "page" /\ place \in {"create", "checkpoint"} => target' = None \/ target' \in Sent(w)
  PROVE  FilesInv'
<1>a. "main" \in Actors /\ "page" \in Actors /\ Actors = {"main", "page"}
  BY DEF Actors
<1>1. mine' \in [Actors -> Files] /\ mine'[a] = w /\ pc'[a] = place
      /\ \A b \in Actors \ {a} : mine'[b] = mine[b] /\ pc'[b] = pc[b]
  BY DEF FilesInv, Goto
<1>2. \A b \in Actors : pc'[b] = "claim" => mine'[b].code \in Codes
  BY <1>1 DEF FilesInv
<1>3. pc'["main"] = "popZone" => w0'.pending # <<>>
  <2>1. CASE a = "main"
    BY <1>1, <2>1 DEF w0
  <2>2. CASE a = "page"
    BY <1>1, <1>a, <2>2 DEF w0, FilesInv
  <2> QED
    BY <1>a, <2>1, <2>2
<1>4. pc'["page"] \in {"create", "checkpoint"} => target' = None \/ target' \in Sent(w1')
  <2>1. CASE a = "page"
    BY <1>1, <2>1 DEF w1
  <2>2. CASE a = "main"
    BY <1>1, <1>a, <2>2 DEF w1, FilesInv
  <2> QED
    BY <1>a, <2>1, <2>2
<1>5. config' \in Files \cup {Torn} /\ update' \in SeqOf(Sources, 1) 
      /\ target' \in Sources \cup {None} /\ kind' \in Kinds
  OBVIOUS
<1>6. (Sent(w1))' = Sent(w1')
  BY DEF Sent, w1
<1> QED
  BY <1>1, <1>2, <1>3, <1>4, <1>5, <1>6 DEF FilesInv

\* The copies stay.
LEMMA SameCopies ==
  ASSUME FilesInv, pc \in [Actors -> Places], NEW a \in Actors, NEW place \in Plain,
         Goto(a, place), UNCHANGED <<mine, kind, target>>,
         config' \in Files \cup {Torn}, update' \in SeqOf(Sources, 1)
  PROVE  FilesInv'
<1>1. mine[a] \in Files /\ mine' = [mine EXCEPT ![a] = mine[a]] /\ place \in Places
      /\ place \notin {"claim", "popZone", "create", "checkpoint"}
  BY DEF FilesInv, Plain
<1>2. target' \in Sources \cup {None} /\ kind' \in Kinds /\ target' = target
  BY DEF FilesInv
<1> QED
  BY <1>1, <1>2, ActorFiles

\* An actor takes a copy and goes where nothing more is asked.
LEMMA NewCopy ==
  ASSUME FilesInv, pc \in [Actors -> Places], NEW a \in Actors, NEW place \in Plain,
         NEW w \in Files, Goto(a, place), Copy(a, w), UNCHANGED <<kind, target>>,
         config' \in Files \cup {Torn}, update' \in SeqOf(Sources, 1)
  PROVE  FilesInv'
<1>1. place \in Places /\ place \notin {"claim", "popZone", "create", "checkpoint"}
  BY DEF Plain
<1>2. target' \in Sources \cup {None} /\ kind' \in Kinds /\ target' = target
  BY DEF FilesInv
<1> QED
  BY <1>1, <1>2, ActorFiles DEF Copy

\* The configuration before there is a file.
LEMMA EmptyIsFile == Empty \in Files
<1>1. <<>> \in Lists
  <2>1. <<>> \in Seq(Sources) /\ IsInjective(<<>>)
    BY DEF IsInjective
  <2> QED
    BY <2>1, ListsAreShort
<1>2. <<>> \in SeqOf(Zones, Cardinality(Zones))
  <2>1. Cardinality(Zones) \in Nat
    BY FS_CardinalityType, FiniteAssumption, Zenon
  <2>2. 0 \in 0..Cardinality(Zones) /\ <<>> \in [1..0 -> Zones]
    BY <2>1
  <2> QED
    BY <2>2 DEF SeqOf
<1>3. PICK s \in Lists, p \in SeqOf(Zones, Cardinality(Zones)), m \in SUBSET ToSet(<<>>),
           b \in BOOLEAN :
         s = <<>> /\ p = <<>> /\ m = {} /\ b = FALSE
  BY <1>1, <1>2
<1>4. Empty = [sources |-> s, cams |-> m, pending |-> p, code |-> None, complete |-> b]
  BY <1>3 DEF Empty
<1>5. m \subseteq ToSet(s) /\ None \in Codes \cup {None}
  BY <1>3
<1> QED
  BY <1>4, <1>5, FileOf

\* What an actor loads.
LEMMA LoadIsFile == ASSUME FilesInv PROVE Load \in Files
  BY EmptyIsFile DEF Load, FilesInv

\* The source a camera is created for is one of the copy's.
LEMMA CameraOfList ==
  ASSUME FilesInv, NEW a \in Actors, pc[a] = "create", NEW i \in Todo(a, mine[a])
  PROVE  Asked(a, mine[a])[i] \in Sent(mine[a])
<1>1. i \in DOMAIN Asked(a, mine[a])
  BY DEF Todo
<1>2. CASE a = "page" /\ target # None
  BY <1>1, <1>2 DEF Asked, FilesInv, w1
<1>3. CASE ~(a = "page" /\ target # None)
  BY <1>1, <1>3 DEF Asked, Sent, ToSet
<1> QED
  BY <1>2, <1>3

\* The workflow main and the page share.
LEMMA WorkflowFiles ==
  ASSUME FilesInv, pc \in [Actors -> Places], NEW a \in Actors, Workflow(a)
  PROVE  FilesInv'
<1> USE DEF file, request
<1>e. {"failed", "failedUsed", "idle", "storeId", "storeKey", "saveClaim", "zones", "complete",
       "markComplete", "finalize", "revert", "saveSources", "saveComplete"} \subseteq Plain
  BY DEF Plain, Places, Pairing
<1>p. Plain \subseteq Places /\ "create" \in Places /\ "checkpoint" \in Places
  BY DEF Plain, Places, Pairing
<1>n. \A w : NextStep(a, w) \in Plain \cup {"create"}
  BY <1>e DEF NextStep
<1>o. OnError(a) \in Plain
  BY <1>e DEF OnError
<1>l. config \in Files \cup {Torn} /\ Load \in Files /\ mine[a] \in Files
      /\ update \in SeqOf(Sources, 1) /\ target \in Sources \cup {None} /\ kind \in Kinds
  BY LoadIsFile DEF FilesInv
<1>t. a = "page" /\ pc[a] \in {"create", "checkpoint"} => target = None \/ target \in Sent(mine[a])
  BY DEF FilesInv, w1
<1>1. CASE ClaimRefused(a) \/ ClaimUnreachable(a) \/ Claim(a) \/ StoreId(a) \/ StoreKey(a)
  <2>1. UNCHANGED <<mine, kind, target, update>>
    BY <1>1 DEF ClaimRefused, ClaimUnreachable, Claim, StoreId, StoreKey
  <2>2. config' \in Files \cup {Torn}
    BY <1>1, <1>l DEF ClaimRefused, ClaimUnreachable, Claim, StoreId, StoreKey, Noted
  <2>3. PICK place \in Plain : Goto(a, place)
    BY <1>1, <1>e DEF ClaimRefused, ClaimUnreachable, Claim, StoreId, StoreKey
  <2> QED
    BY <1>l, <2>1, <2>2, <2>3, SameCopies
<1>2. CASE SaveClaim(a)
  <2>1. PICK w : w = [mine[a] EXCEPT !.code = None, !.complete = FALSE]
    OBVIOUS
  <2>2. w \in Files
    BY <1>l, <2>1, FieldsOfFile
  <2>3. Save(a, w) /\ UNCHANGED <<update, kind, target>>
    BY <1>2, <2>1 DEF SaveClaim
  <2>4. PICK place : Goto(a, place) /\ (place \in Plain \/ (place = "create" /\ a = "main"))
    BY <1>2, <1>e, <1>n DEF SaveClaim
  <2>5. CASE place \in Plain
    BY <1>l, <2>2, <2>3, <2>4, <2>5, NewCopy DEF Save
  <2>6. CASE place = "create" /\ a = "main"
    BY <1>l, <1>p, <2>2, <2>3, <2>4, <2>6, ActorFiles DEF Save, Copy
  <2> QED
    BY <2>4, <2>5, <2>6
<1>3. CASE CreateCamera(a)
  <2>1. pc[a] = "create" /\ UNCHANGED <<config, update, kind, target>>
    BY <1>3 DEF CreateCamera
  <2>2. PICK i \in Todo(a, mine[a]) :
           \/ /\ Copy(a, [mine[a] EXCEPT !.cams = @ \cup {Asked(a, mine[a])[i]}])
              /\ \E place \in Plain \cup {"create", "checkpoint"} : Goto(a, place)
           \/ UNCHANGED mine /\ Goto(a, OnError(a))
    BY <1>3, <1>n DEF CreateCamera
  <2>3. PICK m : m = mine[a].cams \cup {Asked(a, mine[a])[i]}
    OBVIOUS
  <2>4. m \in SUBSET Sent(mine[a])
    BY <1>l, <2>1, <2>3, CameraOfList DEF Files
  <2>5. PICK w : w = [mine[a] EXCEPT !.cams = m]
    OBVIOUS
  <2>6. w \in Files /\ Sent(w) = Sent(mine[a])
    <3>1. w \in Files
      BY <1>l, <2>4, <2>5, FieldsOfFile
    <3>2. w.sources = mine[a].sources
      BY <1>l, <2>5 DEF Files, Configs
    <3> QED
      BY <3>1, <3>2 DEF Sent
  <2>7. CASE UNCHANGED mine /\ Goto(a, OnError(a))
    BY <1>l, <1>o, <2>1, <2>7, SameCopies
  <2>8. ASSUME Copy(a, w), NEW place \in Plain \cup {"create", "checkpoint"}, Goto(a, place)
        PROVE  FilesInv'
    <3>1. place \in Places /\ place \notin {"claim", "popZone"}
      BY <1>p DEF Plain
    <3>2. config' \in Files \cup {Torn} /\ update' \in SeqOf(Sources, 1)
          /\ target' \in Sources \cup {None} /\ kind' \in Kinds /\ target' = target
      BY <1>l, <2>1
    <3>3. a = "page" => target' = None \/ target' \in Sent(w)
      BY <1>t, <2>1, <2>6
    <3> QED
      BY <2>6, <2>8, <3>1, <3>2, <3>3, ActorFiles DEF Copy
  <2> QED
    BY <2>2, <2>3, <2>5, <2>7, <2>8
<1>4. CASE CreateFails(a) \/ FinalizeFails(a)
  <2>1. Goto(a, OnError(a)) /\ UNCHANGED <<config, update, mine, kind, target>>
    BY <1>4 DEF CreateFails, FinalizeFails
  <2> QED
    BY <1>l, <1>o, <2>1, SameCopies
<1>5. CASE Checkpoint(a)
  <2>1. PICK w : w = [mine[a] EXCEPT !.complete = FALSE]
    OBVIOUS
  <2>2. w \in Files /\ Sent(w) = Sent(mine[a])
    <3>1. w \in Files
      BY <1>l, <2>1, FieldsOfFile
    <3>2. w.sources = mine[a].sources
      BY <1>l, <2>1 DEF Files, Configs
    <3> QED
      BY <3>1, <3>2 DEF Sent
  <2>3. pc[a] = "checkpoint" /\ Save(a, w) /\ UNCHANGED <<update, kind, target>>
    BY <1>5, <2>1 DEF Checkpoint
  <2>4. PICK place \in Plain \cup {"create"} : Goto(a, place)
    BY <1>5, <1>n DEF Checkpoint
  <2>5. place \in Places /\ place \notin {"claim", "popZone"}
    BY <1>p DEF Plain
  <2>6. config' \in Files \cup {Torn} /\ update' \in SeqOf(Sources, 1)
        /\ target' \in Sources \cup {None} /\ kind' \in Kinds /\ target' = target
    BY <1>l, <2>2, <2>3 DEF Save
  <2>7. a = "page" => target' = None \/ target' \in Sent(w)
    BY <1>t, <2>2, <2>3
  <2> QED
    BY <2>2, <2>3, <2>4, <2>5, <2>6, <2>7, ActorFiles DEF Save, Copy
<1>6. CASE Finalize(a)
  <2>1. UNCHANGED <<config, update, mine, kind, target>>
    BY <1>6 DEF Finalize
  <2>2. PICK place \in Plain : Goto(a, place)
    BY <1>6, <1>e, <1>o DEF Finalize
  <2> QED
    BY <1>l, <2>1, <2>2, SameCopies
<1> QED
  BY <1>1, <1>2, <1>3, <1>4, <1>5, <1>6 DEF Workflow

\* What main does alone.
LEMMA MainFiles ==
  ASSUME FilesInv, pc \in [Actors -> Places],
         \/ ApplyUpdate \/ Unlink \/ Reconcile \/ WaitCode \/ Start \/ NoMoreZones
         \/ CreateZone \/ ZoneFails \/ PopZone \/ Complete \/ Check \/ WaitFinish
         \/ Failed \/ Reload
  PROVE  FilesInv'
<1> USE DEF file, request
<1>e. {"unlink", "reconcile", "start", "failed", "finalize", "zones", "check", "reload", "waitFinish",
       "waitCode", "run", "unregistered", "complete"} \subseteq Plain /\ "main" \in Actors
  BY DEF Plain, Places, Pairing, Actors
<1>p. Plain \subseteq Places /\ {"create", "claim", "popZone"} \subseteq Places
  BY DEF Plain, Places, Pairing
<1>n. \A w : Onward(w) \in Plain /\ Over \in Plain
  BY <1>e DEF Onward, Over
<1>m. \A w : NextStep("main", w) \in Plain \cup {"create"}
  BY <1>e DEF NextStep, Plain, Places
<1>l. config \in Files \cup {Torn} /\ Load \in Files /\ w0 \in Files
      /\ update \in SeqOf(Sources, 1) /\ target \in Sources \cup {None} /\ kind \in Kinds
  BY <1>e, LoadIsFile DEF FilesInv, w0
<1>1. CASE ApplyUpdate
  <2>1. update \in Lists
    <3>1. update \in Seq(Sources) /\ Len(update) <= 1
      <4>1. PICK m \in 0..1 : update \in [1..m -> Sources]
        BY <1>l DEF SeqOf
      <4> QED
        BY <4>1
    <3>2. IsInjective(update)
      BY <3>1 DEF IsInjective
    <3> QED
      BY <3>1, <3>2, ListsAreShort
  <2>2. config \in Files
    BY <1>1, <1>l DEF ApplyUpdate
  <2>3. PICK w : w = [config EXCEPT !.sources = update, !.cams = {}, !.complete = FALSE]
    OBVIOUS
  <2>4. w \in Files
    BY <2>1, <2>2, <2>3, EditsOfFile
  <2>5. Save("main", w) /\ Goto("main", "unlink") /\ UNCHANGED <<update, kind, target>>
    BY <1>1, <2>3 DEF ApplyUpdate
  <2> QED
    BY <1>e, <1>l, <2>4, <2>5, NewCopy DEF Save
<1>2. CASE Unlink
  <2>1. <<>> \in SeqOf(Sources, 1)
    BY DEF SeqOf
  <2> QED
    BY <1>2, <1>e, <1>l, <2>1, SameCopies DEF Unlink
<1>3. CASE Reconcile
  <2>1. CASE config = Torn
    <3>1. Goto("main", Over) /\ UNCHANGED <<config, mine, update, kind, target>>
      BY <1>3, <2>1 DEF Reconcile
    <3> QED
      BY <1>e, <1>n, <1>l, <3>1, SameCopies
  <2>2. CASE config # Torn
    <3>1. PICK c : c = IF HasCreds THEN None ELSE config.code
      OBVIOUS
    <3>2. config \in Files /\ c \in Codes \cup {None}
      BY <1>l, <2>2, <3>1 DEF Files, Configs
    <3>3. PICK w : w = [config EXCEPT !.code = c]
      OBVIOUS
    <3>4. w \in Files
      BY <3>2, <3>3, FieldsOfFile
    <3>5. Save("main", w) /\ Goto("main", Onward(w)) /\ UNCHANGED <<update, kind, target>>
      BY <1>3, <2>2, <3>1, <3>3 DEF Reconcile
    <3> QED
      BY <1>e, <1>n, <1>l, <3>4, <3>5, NewCopy DEF Save
  <2> QED
    BY <2>1, <2>2
<1>4. CASE WaitCode \/ Check \/ Reload \/ WaitFinish
  <2>1. PICK place \in Plain : Goto("main", place)
    BY <1>4, <1>e, <1>n DEF WaitCode, Check, Reload, WaitFinish
  <2>2. PICK w \in Files : UNCHANGED mine \/ Copy("main", w)
    BY <1>4, <1>l DEF WaitCode, Check, Reload, WaitFinish
  <2>3. UNCHANGED <<config, update, kind, target>>
    BY <1>4 DEF WaitCode, Check, Reload, WaitFinish
  <2>4. CASE UNCHANGED mine
    BY <1>e, <1>l, <2>1, <2>3, <2>4, SameCopies
  <2>5. CASE Copy("main", w)
    BY <1>e, <1>l, <2>1, <2>3, <2>5, NewCopy
  <2> QED
    BY <2>2, <2>4, <2>5
<1>5. CASE Start
  <2>0. UNCHANGED <<update, kind, target>>
    BY <1>5 DEF Start
  <2>1. CASE ~HasCreds
    <3>1. UNCHANGED <<config, mine>> /\ Goto("main", IF w0.code # None THEN "claim" ELSE "failed")
      BY <1>5, <2>1 DEF Start
    <3>2. CASE w0.code = None
      BY <1>e, <1>l, <2>0, <3>1, <3>2, SameCopies
    <3>3. CASE w0.code # None
      <4>1. w0.code \in Codes
        BY <1>l, <3>3 DEF Files, Configs
      <4>2. Goto("main", "claim") /\ mine' = [mine EXCEPT !["main"] = w0]
        BY <3>1, <3>3 DEF w0, FilesInv
      <4> QED
        BY <1>e, <1>p, <1>l, <2>0, <3>1, <4>1, <4>2, ActorFiles
    <3> QED
      BY <3>2, <3>3
  <2>2. CASE HasCreds
    <3>1. PICK w : w = [w0 EXCEPT !.code = None]
      OBVIOUS
    <3>2. w \in Files
      BY <1>l, <3>1, FieldsOfFile
    <3>3. Save("main", w) /\ Goto("main", NextStep("main", w0))
      BY <1>5, <2>2, <3>1 DEF Start
    <3>4. NextStep("main", w0) \in Places /\ NextStep("main", w0) \notin {"claim", "popZone"}
      BY <1>m, <1>p DEF Plain
    <3> QED
      BY <1>e, <1>l, <2>0, <3>2, <3>3, <3>4, ActorFiles DEF Save, Copy
  <2> QED
    BY <2>1, <2>2
<1>6. CASE NoMoreZones \/ ZoneFails
  <2>1. UNCHANGED <<config, mine, update, kind, target>>
    BY <1>6 DEF NoMoreZones, ZoneFails
  <2>2. PICK place \in Plain : Goto("main", place)
    BY <1>6, <1>e DEF NoMoreZones, ZoneFails
  <2> QED
    BY <1>e, <1>l, <2>1, <2>2, SameCopies
<1>7. CASE CreateZone
  <2>1. w0.pending # <<>> /\ UNCHANGED <<config, mine, update, kind, target>>
    BY <1>7 DEF CreateZone
  <2>2. Goto("main", "failed") \/ Goto("main", "popZone")
    BY <1>7 DEF CreateZone
  <2>3. CASE Goto("main", "failed")
    BY <1>e, <1>l, <2>1, <2>3, SameCopies
  <2>4. CASE Goto("main", "popZone")
    <3>1. mine' = [mine EXCEPT !["main"] = w0]
      BY <2>1 DEF w0, FilesInv
    <3> QED
      BY <1>e, <1>p, <1>l, <2>1, <2>4, <3>1, ActorFiles
  <2> QED
    BY <2>2, <2>3, <2>4
<1>8. CASE PopZone
  <2>1. w0.pending # <<>>
    BY <1>8 DEF PopZone, At, FilesInv
  <2>2. PICK w : w = [w0 EXCEPT !.pending = Tail(@)]
    OBVIOUS
  <2>3. w \in Files
    BY <1>l, <2>1, <2>2, TailOfFile
  <2>4. Save("main", w) /\ Goto("main", "zones") /\ UNCHANGED <<update, kind, target>>
    BY <1>8, <2>2 DEF PopZone
  <2> QED
    BY <1>e, <1>l, <2>3, <2>4, NewCopy DEF Save
<1>9. CASE Complete
  <2>1. PICK w : w = [w0 EXCEPT !.code = None, !.complete = TRUE]
    OBVIOUS
  <2>2. w \in Files
    BY <1>l, <2>1, FieldsOfFile
  <2>3. Save("main", w) /\ Goto("main", "check") /\ UNCHANGED <<update, kind, target>>
    BY <1>9, <2>1 DEF Complete
  <2> QED
    BY <1>e, <1>l, <2>2, <2>3, NewCopy DEF Save
<1>10. CASE Failed
  <2>1. PICK w : w = IF At("failedUsed") \/ HasCreds THEN [w0 EXCEPT !.code = None] ELSE w0
    OBVIOUS
  <2>2. w \in Files
    <3>1. [w0 EXCEPT !.code = None] \in Files
      BY <1>l, FieldsOfFile
    <3> QED
      BY <1>l, <2>1, <3>1
  <2>3. Save("main", w) /\ Goto("main", "reload") /\ UNCHANGED <<update, kind, target>>
    BY <1>10, <2>1 DEF Failed
  <2> QED
    BY <1>e, <1>l, <2>2, <2>3, NewCopy DEF Save
<1> QED
  BY <1>1, <1>2, <1>3, <1>4, <1>5, <1>6, <1>7, <1>8, <1>9, <1>10

\* What the page does alone.
LEMMA PageFiles ==
  ASSUME FilesInv, pc \in [Actors -> Places],
         MarkComplete \/ Revert \/ SaveComplete \/ SaveSources
  PROVE  FilesInv'
<1> USE DEF request
<1>e. {"finalize", "idle"} \subseteq Plain /\ "page" \in Actors
  BY DEF Plain, Places, Pairing, Actors
<1>l. Load \in Files /\ w1 \in Files /\ update \in SeqOf(Sources, 1)
  BY <1>e, LoadIsFile DEF FilesInv, w1
<1>1. PICK place \in {"finalize", "idle"}, w \in Files :
         Save("page", w) /\ Goto("page", place)
  <2>1. \A b \in BOOLEAN : [w1 EXCEPT !.complete = b] \in Files
    BY <1>l, FieldsOfFile
  <2>2. CASE MarkComplete \/ Revert \/ SaveComplete
    BY <2>1, <2>2 DEF MarkComplete, Revert, SaveComplete, Incomplete
  <2>3. CASE SaveSources
    <3>1. w1.sources \in Lists /\ w1.cams \subseteq ToSet(w1.sources)
      BY <1>l DEF Files, Configs, Lists, Sent
    <3>2. PICK u : u = [Load EXCEPT !.sources = w1.sources, !.cams = w1.cams]
      OBVIOUS
    <3>3. u \in Files
      BY <1>l, <3>1, <3>2, EditsOfFile
    <3>4. [u EXCEPT !.complete = FALSE] \in Files
      BY <3>3, FieldsOfFile
    <3> QED
      BY <2>3, <3>2, <3>4 DEF SaveSources, Incomplete
  <2> QED
    BY <2>2, <2>3
<1>2. UNCHANGED <<update, kind, target>>
  BY DEF MarkComplete, Revert, SaveComplete, SaveSources
<1> QED
  BY <1>e, <1>l, <1>1, <1>2, NewCopy DEF Save

\* A request puts what it is about into the page's copy.
LEMMA RequestFiles ==
  ASSUME FilesInv, pc \in [Actors -> Places],
         \/ RequestClaim \/ RequestSources \/ RequestAdd \/ RequestUpdate \/ RequestRemove
         \/ RequestBulkDelete
  PROVE  FilesInv'
<1>e. {"finalize", "create", "claim"} \subseteq Places /\ "page" \in Actors
  BY DEF Places, Pairing, Actors
<1>k. {"claim", "sources", "add", "update", "remove", "bulk"} \subseteq Kinds
  BY DEF Kinds
<1>l. config \in Files \cup {Torn} /\ Load \in Files /\ update \in SeqOf(Sources, 1)
  BY LoadIsFile DEF FilesInv
<1>s. Load.sources \in Lists /\ Load.cams \subseteq ToSet(Load.sources)
      /\ Sent(Load) = ToSet(Load.sources) /\ Sent(Load) \subseteq Sources
  <2>1. Load.sources \in Lists /\ Load.cams \subseteq ToSet(Load.sources)
    BY <1>l DEF Files, Configs, Lists, Sent
  <2> QED
    BY <2>1, ListMembers DEF Sent
<1>1. CASE RequestClaim
  <2>1. PICK c \in Codes : Save("page", [Load EXCEPT !.code = c])
    BY <1>1 DEF RequestClaim
  <2>2. PICK w : w = [Load EXCEPT !.code = c]
    OBVIOUS
  <2>3. w \in Files
    BY <1>l, <2>2, FieldsOfFile
  <2>4. w.code = c
    BY <1>l, <2>2 DEF Files, Configs
  <2>5. Goto("page", "claim") /\ kind' = "claim" /\ target' = None /\ update' = update
    BY <1>1 DEF RequestClaim, Ask
  <2> QED
    BY <1>e, <1>k, <1>l, <2>1, <2>2, <2>3, <2>4, <2>5, ActorFiles DEF Save, Copy
<1>2. CASE RequestSources
  <2>1. PICK s \in Lists :
          Copy("page", [Load EXCEPT !.sources = s, !.cams = {}, !.complete = FALSE])
    BY <1>2 DEF RequestSources, Lists
  <2>2. [Load EXCEPT !.sources = s, !.cams = {}, !.complete = FALSE] \in Files
    BY <1>l, EditsOfFile
  <2>3. Goto("page", "create") /\ kind' = "sources" /\ target' = None /\ UNCHANGED <<update, config>>
    BY <1>2 DEF RequestSources, Ask
  <2> QED
    BY <1>e, <1>k, <1>l, <2>1, <2>2, <2>3, ActorFiles DEF Copy
<1>3. CASE RequestAdd
  <2>1. PICK s \in Sources \ Sent(Load) :
          /\ Save("page", Incomplete([Load EXCEPT !.sources = Append(@, s)]))
          /\ Ask("add", s)
    BY <1>3 DEF RequestAdd
  <2>2. PICK list \in Lists : list = Append(Load.sources, s) /\ ToSet(list) = Sent(Load) \cup {s}
    BY <1>s, AppendToList
  <2>3. PICK w : w = [Load EXCEPT !.sources = list, !.cams = Load.cams, !.complete = FALSE]
    OBVIOUS
  <2>4. w \in Files
    <3>1. Load.cams \in SUBSET ToSet(list)
      BY <1>s, <2>2
    <3> QED
      BY <1>l, <2>3, <3>1, EditsOfFile
  <2>5. w.sources = list
    BY <1>l, <2>3 DEF Files, Configs
  <2>6. Save("page", w)
    <3>1. Incomplete([Load EXCEPT !.sources = Append(@, s)]) = w
      BY <1>l, <2>2, <2>3 DEF Incomplete, Files, Configs
    <3> QED
      BY <2>1, <3>1
  <2>7. Goto("page", "create") /\ kind' = "add" /\ target' = s /\ update' = update
    BY <1>3, <2>1 DEF RequestAdd, Ask
  <2>8. target' \in Sent(w)
    BY <2>2, <2>5, <2>7 DEF Sent
  <2> QED
    BY <1>e, <1>k, <1>l, <2>4, <2>6, <2>7, <2>8, ActorFiles DEF Save, Copy
<1>4. CASE RequestUpdate
  <2>1. PICK i \in DOMAIN Load.sources : \E s \in (Sources \ Sent(Load)) \cup {Load.sources[i]} :
          /\ Save("page", Incomplete([Load EXCEPT !.sources[i] = s, !.cams = @ \ {Load.sources[i]}]))
          /\ Ask("update", s)
    BY <1>4 DEF RequestUpdate
  <2>2. PICK s \in (Sources \ Sent(Load)) \cup {Load.sources[i]} :
          /\ Save("page", Incomplete([Load EXCEPT !.sources[i] = s, !.cams = @ \ {Load.sources[i]}]))
          /\ Ask("update", s)
    BY <2>1
  <2>3. PICK list \in Lists : /\ list = [Load.sources EXCEPT ![i] = s]
                              /\ ToSet(list) = (Sent(Load) \ {Load.sources[i]}) \cup {s}
    <3>1. s \in (Sources \ ToSet(Load.sources)) \cup {Load.sources[i]}
      BY <1>s
    <3>2. PICK t : t = Load.sources
      OBVIOUS
    <3>3. [t EXCEPT ![i] = s] \in Lists /\ ToSet([t EXCEPT ![i] = s]) = (ToSet(t) \ {t[i]}) \cup {s}
      BY <1>s, <3>1, <3>2, ReplaceInList
    <3> QED
      BY <1>s, <3>2, <3>3
  <2>4. PICK m \in SUBSET ToSet(list) : m = Load.cams \ {Load.sources[i]}
    BY <1>s, <2>3
  <2>5. PICK w : w = [Load EXCEPT !.sources = list, !.cams = m, !.complete = FALSE]
    OBVIOUS
  <2>6. w \in Files
    BY <1>l, <2>5, EditsOfFile
  <2>7. w.sources = list
    BY <1>l, <2>5 DEF Files, Configs
  <2>8. Save("page", w)
    <3>1. Incomplete([Load EXCEPT !.sources[i] = s, !.cams = @ \ {Load.sources[i]}]) = w
      BY <1>l, <2>3, <2>4, <2>5 DEF Incomplete, Files, Configs
    <3> QED
      BY <2>2, <3>1
  <2>9. s \in Sources /\ s \in ToSet(list)
    BY <1>s, <2>3, ListMembers
  <2>10. Goto("page", "create") /\ kind' = "update" /\ target' = s /\ update' = update
    BY <1>4, <2>2 DEF RequestUpdate, Ask
  <2>11. target' \in Sent(w)
    BY <2>7, <2>9, <2>10 DEF Sent
  <2> QED
    BY <1>e, <1>k, <1>l, <2>6, <2>8, <2>9, <2>10, <2>11, ActorFiles DEF Save, Copy
<1>5. CASE RequestRemove \/ RequestBulkDelete
  <2>1. PICK i \in DOMAIN Load.sources : \/ Save("page", Incomplete(Without(Load, i)))
                                         \/ Copy("page", Without(Load, i)) /\ UNCHANGED config
    BY <1>5 DEF RequestRemove, RequestBulkDelete
  <2>2. PICK list \in Lists : /\ list = RemoveAt(Load.sources, i)
                              /\ ToSet(list) = Sent(Load) \ {Load.sources[i]}
    BY <1>s, <2>1, RemoveFromList
  <2>3. PICK m \in SUBSET ToSet(list) : m = Load.cams \ {Load.sources[i]}
    BY <1>s, <2>2
  <2>4. PICK w : w = [Load EXCEPT !.sources = list, !.cams = m]
    OBVIOUS
  <2>5. Without(Load, i) = w
    BY <1>l, <2>2, <2>3, <2>4 DEF Without
  <2>6. w \in Files
    BY <1>l, <2>4, EditsOfFile
  <2>7. Incomplete(w) \in Files
    BY <2>6, FieldsOfFile DEF Incomplete
  <2>8. PICK v \in Files : mine' = [mine EXCEPT !["page"] = v]
    BY <2>1, <2>5, <2>6, <2>7 DEF Save, Copy
  <2>9. config' \in Files \cup {Torn}
    BY <1>l, <2>1, <2>5, <2>7 DEF Save
  <2>10. Goto("page", "finalize") /\ kind' \in Kinds /\ target' = None /\ update' = update
    BY <1>5, <1>k DEF RequestRemove, RequestBulkDelete, Ask
  <2> QED
    BY <1>e, <1>l, <2>8, <2>9, <2>10, ActorFiles
<1> QED
  BY <1>1, <1>2, <1>3, <1>4, <1>5

\* No step of an actor, no request and no crash writes anything else.
LEMMA FilesStep == FilesInv /\ pc \in [Actors -> Places] /\ [Next]_vars => FilesInv'
<1> SUFFICES ASSUME FilesInv, pc \in [Actors -> Places], [Next]_vars PROVE FilesInv'
  OBVIOUS
<1>m. "main" \in Actors /\ "page" \in Actors
  BY DEF Actors
<1>l. config \in Files \cup {Torn} /\ Load \in Files /\ Empty \in Files
  BY LoadIsFile, EmptyIsFile DEF FilesInv
<1>1. CASE Main
  BY <1>m, <1>1, WorkflowFiles, MainFiles DEF Main
<1>2. CASE Page
  BY <1>m, <1>2, WorkflowFiles, PageFiles DEF Page
<1>3. CASE SkipSources \/ FinishZones
  <2>1. UNCHANGED <<pc, mine, kind, target, update>>
    BY <1>3 DEF SkipSources, FinishZones, local
  <2>2. \A w \in Files : Finished(w) \in Files
    BY FieldsOfFile DEF Finished
  <2>3. [Load EXCEPT !.sources = <<>>, !.cams = {}] \in Files
    <3>1. <<>> \in Lists
      BY <1>l DEF Empty, Files, Configs, Lists
    <3> QED
      BY <1>l, <3>1, EditsOfFile
  <2>4. config' \in Files
    BY <1>3, <1>l, <2>2, <2>3 DEF SkipSources, FinishZones
  <2> QED
    BY <2>1, <2>4 DEF FilesInv, w0, w1, Sent
<1>4. CASE RequestClaim \/ RequestSources \/ RequestAdd \/ RequestUpdate \/ RequestRemove
             \/ RequestBulkDelete
  BY <1>4, RequestFiles
<1>5. CASE Crash
  <2>1. config' \in Files \cup {Torn} /\ mine' \in [Actors -> Files]
    BY <1>5, <1>l DEF Crash
  <2>2. pc'["main"] = "boot" /\ pc'["page"] = "idle" /\ \A a \in Actors : pc'[a] # "claim"
    BY <1>5, <1>m DEF Crash, Restarted
  <2>3. update' = update /\ target' = None /\ kind' = None
    BY <1>5 DEF Crash
  <2> QED
    BY <2>1, <2>2, <2>3 DEF FilesInv, Kinds
<1>6. CASE TwoMinutes \/ Heartbeat \/ UNCHANGED vars
  <2>1. UNCHANGED <<config, update, pc, mine, kind, target>>
    BY <1>6 DEF TwoMinutes, Heartbeat, vars, file, local, request
  <2> QED
    BY <2>1 DEF FilesInv, w0, w1, Sent
<1> QED
  BY <1>1, <1>2, <1>3, <1>4, <1>5, <1>6 DEF Next, Operator

\* A claim consumes a code no claim has consumed, so the keys are numbered within
\* the codes.
LEMMA BackendStep ==
  BackendInv /\ FilesInv /\ CredentialsInv /\ CredentialsInv' /\ [Next]_vars => BackendInv'
<1> SUFFICES ASSUME BackendInv, FilesInv, CredentialsInv, CredentialsInv', [Next]_vars
             PROVE  BackendInv'
  OBVIOUS
<1>n. key \in Nat /\ creds \in [id : BOOLEAN, key : Nat] /\ Cardinality(used) \in Nat /\ IsFiniteSet(used)
  <2>1. IsFiniteSet(used)
    <3>1. used \in SUBSET Codes /\ IsFiniteSet(Codes)
      BY FiniteAssumption DEF BackendInv
    <3> QED
      BY <3>1, FS_Subset, Zenon
  <2> QED
    BY <2>1, FS_CardinalityType DEF CredentialsInv
<1>1. ASSUME NEW a \in Actors, Claim(a) PROVE BackendInv'
  <2>1. mine[a].code \in Codes \ used /\ used' = used \cup {mine[a].code}
    BY <1>1 DEF Claim, FilesInv
  <2>2. Cardinality(used') = Cardinality(used) + 1
    BY <1>n, <2>1, FS_AddElement
  <2>3. key' = key + 1 /\ reply' \in {reply, key'} /\ creds' = creds /\ recent' = TRUE
    BY <1>1 DEF Claim
  <2> QED
    BY <1>n, <2>1, <2>2, <2>3 DEF BackendInv
<1>2. ASSUME NEW a \in Actors, StoreId(a) \/ StoreKey(a) PROVE BackendInv'
  <2>1. UNCHANGED <<used, key, reply, recent>> /\ creds'.key \in {creds.key, reply}
    BY <1>n, <1>2 DEF StoreId, StoreKey, backend
  <2> QED
    BY <1>n, <2>1 DEF BackendInv
<1>3. CASE Crash \/ TwoMinutes \/ Heartbeat
  <2>1. UNCHANGED <<used, key, creds>> /\ reply' \in {reply, 0} /\ recent' \in BOOLEAN
    BY <1>3 DEF Crash, TwoMinutes, Heartbeat, local, backend, BackendInv
  <2> QED
    BY <1>n, <2>1 DEF BackendInv
<1>4. CASE UNCHANGED <<used, key, reply, creds, recent>>
  BY <1>4 DEF BackendInv
<1>5. ASSUME NEW a \in Actors, Workflow(a) PROVE BackendInv'
  <2>1. CASE ClaimRefused(a) \/ ClaimUnreachable(a) \/ SaveClaim(a) \/ CreateFails(a)
               \/ Checkpoint(a) \/ FinalizeFails(a) \/ CreateCamera(a) \/ Finalize(a)
    BY <1>4, <2>1 DEF ClaimRefused, ClaimUnreachable, SaveClaim, CreateFails, Checkpoint,
       FinalizeFails, CreateCamera, Finalize, backend
  <2> QED
    BY <1>1, <1>2, <1>5, <2>1 DEF Workflow
<1>6. CASE Main
  <2>1. CASE ApplyUpdate \/ Unlink \/ Reconcile \/ WaitCode \/ Start \/ NoMoreZones
    BY <1>4, <2>1 DEF ApplyUpdate, Unlink, Reconcile, WaitCode, Start, NoMoreZones, backend
  <2>2. CASE CreateZone \/ ZoneFails \/ PopZone \/ Complete \/ Check \/ WaitFinish \/ Failed \/ Reload
    BY <1>4, <2>2 DEF CreateZone, ZoneFails, PopZone, Complete, Check, WaitFinish, Failed, Reload, backend
  <2> QED
    BY <1>5, <1>6, <2>1, <2>2 DEF Main, Actors
<1>7. CASE Page
  <2>1. CASE MarkComplete \/ Revert \/ SaveComplete \/ SaveSources
    BY <1>4, <2>1 DEF MarkComplete, Revert, SaveComplete, SaveSources, backend
  <2> QED
    BY <1>5, <1>7, <2>1 DEF Page, Actors
<1>8. CASE Operator
  BY <1>4, <1>8 DEF Operator, RequestClaim, RequestSources, RequestAdd, RequestUpdate, RequestRemove,
     RequestBulkDelete, SkipSources, FinishZones, Ask, local, backend
<1>9. CASE UNCHANGED vars
  BY <1>4, <1>9 DEF vars, local, backend
<1> QED
  BY <1>3, <1>6, <1>7, <1>8, <1>9 DEF Next

\* Cameras are of sources, zones of cameras.
LEMMA CamerasStep ==
  CamerasInv /\ FilesInv /\ pc \in [Actors -> Places] /\ [Next]_vars => CamerasInv'
<1> SUFFICES ASSUME CamerasInv, FilesInv, [Next]_vars PROVE CamerasInv'
  OBVIOUS
<1>s. \A a \in Actors : Sent(mine[a]) \subseteq Sources
  <2>1. \A w \in Files : w.sources \in Lists
    BY DEF Files, Configs, Lists
  <2> QED
    BY <2>1, ListMembers DEF Sent, FilesInv
<1>1. ASSUME NEW a \in Actors, CreateCamera(a) PROVE CamerasInv'
  <2>1. PICK i \in Todo(a, mine[a]) : attached' = attached \cup {Asked(a, mine[a])[i]}
    BY <1>1 DEF CreateCamera
  <2>2. Asked(a, mine[a])[i] \in Sources
    BY <1>1, <1>s, CameraOfList DEF CreateCamera
  <2>3. placed' = placed
    BY <1>1 DEF CreateCamera
  <2> QED
    BY <2>1, <2>2, <2>3 DEF CamerasInv
<1>2. ASSUME NEW a \in Actors, Finalize(a) PROVE CamerasInv'
  <2>1. attached' = Sent(mine[a]) /\ placed' = {p \in placed : p[2] \in attached'}
    BY <1>2 DEF Finalize
  <2> QED
    BY <1>s, <2>1 DEF CamerasInv
<1>3. CASE CreateZone
  <2>1. ZoneAt \in attached /\ placed' = placed \cup {<<Zone, ZoneAt>>} /\ attached' = attached
    BY <1>3 DEF CreateZone, Accepted
  <2>2. Zone \in Zones
    BY <1>3, TailOfFile DEF CreateZone, Zone, w0, FilesInv, Actors
  <2> QED
    BY <2>1, <2>2 DEF CamerasInv
<1>4. CASE UNCHANGED <<attached, placed>>
  BY <1>4 DEF CamerasInv
<1>5. ASSUME NEW a \in Actors, Workflow(a) PROVE CamerasInv'
  <2>1. CASE ClaimRefused(a) \/ ClaimUnreachable(a) \/ Claim(a) \/ StoreId(a) \/ StoreKey(a)
               \/ SaveClaim(a) \/ CreateFails(a) \/ Checkpoint(a) \/ FinalizeFails(a)
    BY <1>4, <2>1 DEF ClaimRefused, ClaimUnreachable, Claim, StoreId, StoreKey, SaveClaim, CreateFails,
       Checkpoint, FinalizeFails, backend
  <2> QED
    BY <1>1, <1>2, <1>5, <2>1 DEF Workflow
<1>6. CASE Main
  <2>1. CASE ApplyUpdate \/ Unlink \/ Reconcile \/ WaitCode \/ Start \/ NoMoreZones
    BY <1>4, <2>1 DEF ApplyUpdate, Unlink, Reconcile, WaitCode, Start, NoMoreZones, backend
  <2>2. CASE ZoneFails \/ PopZone \/ Complete \/ Check \/ WaitFinish \/ Failed \/ Reload
    BY <1>4, <2>2 DEF ZoneFails, PopZone, Complete, Check, WaitFinish, Failed, Reload, backend
  <2> QED
    BY <1>3, <1>5, <1>6, <2>1, <2>2 DEF Main, Actors
<1>7. CASE Page
  <2>1. CASE MarkComplete \/ Revert \/ SaveComplete \/ SaveSources
    BY <1>4, <2>1 DEF MarkComplete, Revert, SaveComplete, SaveSources, backend
  <2> QED
    BY <1>5, <1>7, <2>1 DEF Page, Actors
<1>8. CASE Operator
  BY <1>4, <1>8 DEF Operator, RequestClaim, RequestSources, RequestAdd, RequestUpdate, RequestRemove,
     RequestBulkDelete, SkipSources, FinishZones, Ask, backend
<1>9. CASE Crash \/ TwoMinutes \/ Heartbeat \/ UNCHANGED vars
  BY <1>4, <1>9 DEF Crash, TwoMinutes, Heartbeat, vars, backend
<1> QED
  BY <1>6, <1>7, <1>8, <1>9 DEF Next

\* The flags of main and of the history, and the bounds.
LEMMA FlagsStep == FlagsInv /\ [Next]_vars => FlagsInv'
<1> SUFFICES ASSUME FlagsInv, [Next]_vars PROVE FlagsInv'
  OBVIOUS
<1>1. MaxEdits \in Nat /\ MaxFaults \in Nat
  BY ProvisioningAssumption
<1>2. /\ ready' \in BOOLEAN /\ edited' \in BOOLEAN /\ torn' \in BOOLEAN
      /\ edits' = edits \/ Edit
      /\ faults' = faults \/ Fault
  <2> USE DEF request, history, bounds, FlagsInv
  <2>1. CASE \E a \in Actors : Workflow(a)
    BY <2>1 DEF Workflow, ClaimRefused, ClaimUnreachable, Claim, StoreId, StoreKey, SaveClaim,
       CreateCamera, CreateFails, Checkpoint, Finalize, FinalizeFails
  <2>2. CASE ApplyUpdate \/ Unlink \/ Reconcile \/ WaitCode \/ Start \/ NoMoreZones \/ CreateZone
    BY <2>2 DEF ApplyUpdate, Unlink, Reconcile, WaitCode, Start, NoMoreZones, CreateZone
  <2>3. CASE ZoneFails \/ PopZone \/ Complete \/ Check \/ WaitFinish \/ Failed \/ Reload
    BY <2>3 DEF ZoneFails, PopZone, Complete, Check, WaitFinish, Failed, Reload
  <2>4. CASE MarkComplete \/ Revert \/ SaveComplete \/ SaveSources
    BY <2>4 DEF MarkComplete, Revert, SaveComplete, SaveSources
  <2>5. CASE Operator
    BY <2>5 DEF Operator, RequestClaim, RequestSources, RequestAdd, RequestUpdate, RequestRemove,
       RequestBulkDelete, SkipSources, FinishZones, Ask, Edit
  <2>6. CASE Crash \/ TwoMinutes \/ Heartbeat \/ UNCHANGED vars
    BY <2>6 DEF Crash, TwoMinutes, Heartbeat, vars
  <2> QED
    BY <2>1, <2>2, <2>3, <2>4, <2>5, <2>6 DEF Next, Main, Page, Actors
<1> QED
  BY <1>1, <1>2 DEF FlagsInv, Edit, Fault

\* The initial states: nothing created, no key or the first.
LEMMA InitTypeInv == Init => TypeInv
<1> SUFFICES ASSUME Init PROVE TypeInv
  OBVIOUS
<1>1. PICK s \in Lists, p \in SeqOf(Zones, Cardinality(Zones)), c \in Codes \cup {None},
           paired \in BOOLEAN :
        /\ config = [sources |-> s, cams |-> {}, pending |-> p, code |-> c, complete |-> FALSE]
        /\ creds = [id |-> paired, key |-> IF paired THEN 1 ELSE 0]
        /\ key = IF paired THEN 1 ELSE 0
        /\ update \in {<<>>} \cup {<<t>> : t \in Sources}
  BY DEF Init, Lists
<1>2. config \in Files
  <2>1. PICK m, b : m = {} /\ b = FALSE
    OBVIOUS
  <2>2. config = [sources |-> s, cams |-> m, pending |-> p, code |-> c, complete |-> b]
        /\ b \in BOOLEAN /\ m \subseteq ToSet(s)
    BY <1>1, <2>1
  <2> QED
    BY <2>2, FileOf
<1>3. Empty \in Files
  BY EmptyIsFile
<1>4. update \in SeqOf(Sources, 1)
  <2>1. CASE update = <<>>
    BY <2>1 DEF SeqOf
  <2>2. ASSUME NEW t \in Sources, update = <<t>> PROVE update \in SeqOf(Sources, 1)
    <3>1. update \in [1..1 -> Sources] /\ 1 \in 0..1
      BY <2>2
    <3> QED
      BY <3>1 DEF SeqOf
  <2> QED
    BY <1>1, <2>1, <2>2
<1>5. pc["main"] = "boot" /\ pc["page"] = "idle" /\ (\A a \in Actors : pc[a] # "claim")
      /\ mine = [a \in Actors |-> Empty] /\ kind = None /\ target = None
  BY DEF Init, Restarted, Actors
<1>6. FilesInv
  BY <1>2, <1>3, <1>4, <1>5 DEF FilesInv, Kinds
<1>7. BackendInv
  <2>1. used = {} /\ reply = 0 /\ recent = FALSE
    BY DEF Init
  <2>2. Cardinality({}) = 0
    BY FS_EmptySet
  <2>3. Cardinality(used) = 0 /\ used \subseteq Codes
    BY <2>1, <2>2
  <2>4. key \in {0, 1} /\ creds.key = key
    BY <1>1
  <2>5. key <= 0 + 1 /\ reply \in 0..key /\ creds.key <= key
    BY <2>1, <2>4
  <2> QED
    BY <2>1, <2>3, <2>5 DEF BackendInv
<1>8. CamerasInv /\ FlagsInv
  <2>1. attached = {} /\ placed = {} /\ edits = 0 /\ faults = 0
        /\ ready = FALSE /\ edited = FALSE /\ torn = FALSE
    BY DEF Init
  <2>2. CamerasInv
    BY <2>1 DEF CamerasInv
  <2>3. 0 \in 0..MaxEdits /\ 0 \in 0..MaxFaults
    BY ProvisioningAssumption
  <2> QED
    BY <2>1, <2>2, <2>3 DEF FlagsInv
<1> QED
  BY <1>6, <1>7, <1>8 DEF TypeInv

\* The invariant says more than the types.
LEMMA TypeInvImplies == TypeInv /\ CredentialsInv => TypeOK
<1> SUFFICES ASSUME TypeInv, CredentialsInv PROVE TypeOK
  OBVIOUS
<1>1. config \in Configs \cup {Torn} /\ (config # Torn => config.cams \subseteq Sent(config))
      /\ mine \in [Actors -> Configs]
  BY DEF TypeInv, FilesInv, Files
<1>2. /\ creds \in [id : BOOLEAN, key : 0..(Cardinality(Codes) + 1)]
      /\ {reply, key} \subseteq 0..(Cardinality(Codes) + 1)
  <2>1. used \in SUBSET Codes /\ IsFiniteSet(Codes)
    BY FiniteAssumption DEF TypeInv, BackendInv
  <2>2. IsFiniteSet(used) /\ Cardinality(used) <= Cardinality(Codes)
    BY <2>1, FS_Subset, Zenon
  <2>3. Cardinality(used) \in Nat /\ Cardinality(Codes) \in Nat
    BY <2>1, <2>2, FS_CardinalityType, Zenon
  <2>4. key \in Nat /\ creds \in [id : BOOLEAN, key : Nat]
        /\ key <= Cardinality(used) + 1 /\ reply \in 0..key /\ creds.key <= key
    BY DEF TypeInv, BackendInv, CredentialsInv
  <2>5. key \in 0..(Cardinality(Codes) + 1) /\ reply \in 0..(Cardinality(Codes) + 1)
        /\ creds.key \in 0..(Cardinality(Codes) + 1)
    BY <2>2, <2>3, <2>4
  <2> QED
    BY <2>4, <2>5
<1>3. update \in SeqOf(Sources, 1) /\ target \in Sources \cup {None}
      /\ kind \in {None, "claim", "sources", "add", "update", "remove", "bulk"}
  BY DEF TypeInv, FilesInv, Kinds
<1>4. used \subseteq Codes /\ {ready, recent, edited, torn} \subseteq BOOLEAN
  BY DEF TypeInv, BackendInv, FlagsInv
<1>5. attached \subseteq Sources /\ placed \subseteq Zones \X attached
  BY DEF TypeInv, CamerasInv
<1>6. edits \in 0..MaxEdits /\ faults \in 0..MaxFaults /\ pc \in [Actors -> Places]
  BY DEF TypeInv, FlagsInv, CredentialsInv
<1> QED
  BY <1>1, <1>2, <1>3, <1>4, <1>5, <1>6 DEF TypeOK

\* The file stays one or unreadable, a camera id belongs to a source of its list,
\* a zone to a camera, and no more keys are given than there are codes.
THEOREM ProvisioningTypes == Spec => []TypeOK
<1>1. TypeInv /\ CredentialsInv /\ CredentialsInv' /\ [Next]_vars => TypeInv'
  BY FilesStep, BackendStep, CamerasStep, FlagsStep DEF TypeInv, CredentialsInv
<1> QED
  BY InitCredentialsInv, CredentialsStep, InitTypeInv, <1>1, TypeInvImplies, PTL DEF Spec
=============================================================================
