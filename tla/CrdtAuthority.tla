---------------------------- MODULE CrdtAuthority ----------------------------
(***************************************************************************)
(* The authority of one CRDT document (plugins/crdt/replica.js): the       *)
(* reference-counted replica, the chain of stores behind it, and the       *)
(* explicit flushes with a deadline.  The merge is commutative, so the     *)
(* document is the set of edits in it; a store writes the whole of it.     *)
(*                                                                         *)
(* The host's backend is external: an issued store is answered durable,    *)
(* declined or failed, a failed or cancelled one may have written, and     *)
(* nothing is written after a cancellation.                                *)
(***************************************************************************)
EXTENDS CrdtRecord, OrderedRemoval

vars == crdtVars

Cold == [topic |-> "absent",   \* "loading", "loaded"
         doc |-> {}, refs |-> 0, dirty |-> FALSE, since |-> 0,
         timer |-> FALSE,      \* debounceTimer, for the debounce or a retry
         unloading |-> FALSE]

Unasked == [st |-> "idle", had |-> {}]

Init ==
    /\ rec = Cold
    /\ calls = <<>>
    /\ holder = [h \in Holder |-> "none"]
    /\ flush = [f \in Flusher |-> Unasked]
    /\ stored = {} /\ edits = 0 /\ gone = {} /\ waivers = {}

-----------------------------------------------------------------------------
(* The parts the operations share: from a state of the record to a state.  *)

Now == [rec |-> rec, calls |-> calls, flush |-> flush, gone |-> gone, waivers |-> waivers]

Become(w) ==
    /\ rec' = w.rec /\ calls' = w.calls /\ flush' = w.flush /\ gone' = w.gone
    /\ waivers' = w.waivers \cup
         IF Cardinality({i \in DOMAIN w.calls : w.calls[i].issued}) > 1 THEN {"overlap"} ELSE {}

Newest(w) == {i \in DOMAIN w.calls : w.calls[i].newest}

\* storeNow: the whole document is captured now, the write waits for the newest
\* one's settlement.
StoreNow(w, who) ==
    [w EXCEPT !.rec.dirty = FALSE, !.rec.since = 0, !.rec.timer = FALSE,
              !.calls = Append([i \in DOMAIN @ |-> [@[i] EXCEPT !.newest = FALSE]],
                               [blob |-> w.rec.doc, issued |-> Newest(w) = {}, newest |-> TRUE,
                                waiters |-> who, tell |-> who])]

\* What an attempt that did not confirm leaves: dirty, with the retry armed.
Unstored(w) == [w EXCEPT !.rec.dirty = TRUE, !.rec.timer = TRUE]

\* Slip: a write whose answer is not known counts as written.
AbandonedClean(w) == w

\* abandon, for a flush that gave up.
Abandoned(w) == Unstored(w)

\* A finished flush is told, and counts as a waiter nowhere.
Report(w, who, outcome) ==
    [w EXCEPT
        !.flush = [f \in Flusher |->
            IF f \notin who THEN @[f]
            ELSE [@[f] EXCEPT !.st = IF outcome = "durable" /\ ~(w.rec.topic # "absent" /\ w.rec.dirty)
                                     THEN "ok" ELSE "unconfirmed"]],
        !.calls = [i \in DOMAIN @ |-> [@[i] EXCEPT !.waiters = w.calls[i].waiters \ who]]]

\* unload: what is in flight is cancelled, and who waits for it is told it failed.
Unload(w) ==
    LET told == UNION {w.calls[i].tell : i \in DOMAIN w.calls}
    IN Report([w EXCEPT !.rec = Cold, !.calls = <<>>], told, "failed")

\* Call i leaves the chain, and the one behind it is issued.
Released(w, i) ==
    [w EXCEPT !.calls = [j \in 1..(Len(@) - 1) |->
        IF j < i THEN @[j] ELSE [@[j + 1] EXCEPT !.issued = w.calls[j + 1].issued \/ j = i]]]

-----------------------------------------------------------------------------
(* The life of the record.                                                 *)

\* acquire: the first one loads, and whoever comes meanwhile waits with it. The
\* count goes up a microtask later, before any other task.
Acquire(h) ==
    /\ holder[h] \in {"none", "dropped"}
    /\ holder' = [holder EXCEPT ![h] = IF rec.topic = "loaded" THEN "held" ELSE "joining"]
    /\ rec' = [rec EXCEPT !.unloading = FALSE,
                          !.topic = IF @ = "absent" THEN "loading" ELSE @,
                          !.refs = IF rec.topic = "loaded" THEN @ + 1 ELSE @]
    /\ UNCHANGED <<calls, flush, stored, edits, gone, waivers>>

Joining == {h \in Holder : holder[h] = "joining"}

Load ==
    /\ rec.topic = "loading"
    /\ rec' = [rec EXCEPT !.topic = "loaded", !.doc = stored, !.refs = Cardinality(Joining)]
    /\ holder' = [h \in Holder |-> IF h \in Joining THEN "held" ELSE holder[h]]
    /\ UNCHANGED <<calls, flush, stored, edits, gone, waivers>>

LoadFails ==
    /\ rec.topic = "loading"
    /\ rec' = Cold
    /\ holder' = [h \in Holder |-> IF h \in Joining THEN "none" ELSE holder[h]]
    /\ UNCHANGED <<calls, flush, stored, edits, gone, waivers>>

\* release: the last one stores what is unstored, and the replica goes once its
\* stores have settled and left nothing unstored. A release of a mount whose
\* replica was dropped finds whatever record the topic has now.
Release(h) ==
    LET w == [Now EXCEPT !.rec.refs = IF @ > 0 THEN @ - 1 ELSE @, !.rec.unloading = rec.refs <= 1,
                         !.waivers = IF holder[h] = "dropped" THEN @ \cup {"stolen"} ELSE @]
    IN /\ holder[h] \in {"held", "dropped"}
       /\ holder' = [holder EXCEPT ![h] = "none"]
       /\ IF rec.topic # "loaded" THEN UNCHANGED <<rec, calls, flush, gone, waivers>>
          ELSE Become(IF w.rec.refs > 0 THEN w
                      ELSE IF rec.dirty THEN StoreNow(w, {})
                      ELSE IF Newest(w) = {} THEN Unload(w) ELSE w)
       /\ UNCHANGED <<stored, edits>>

\* drop: erased whoever holds it, and nothing is written.
Drop ==
    /\ rec.topic # "absent"
    /\ Become([Unload(Now) EXCEPT !.gone = @ \cup (rec.doc \ stored)])
    /\ holder' = [h \in Holder |-> CASE holder[h] = "held" -> "dropped"
                                     [] holder[h] = "joining" -> "none"
                                     [] OTHER -> holder[h]]
    /\ stored' \in {stored} \cup {calls[i].blob : i \in {j \in DOMAIN calls : calls[j].issued}}
    /\ UNCHANGED edits

\* applyUpdate
ApplyUpdate ==
    /\ rec.topic = "loaded"
    /\ edits < MaxEdits
    /\ edits' = edits + 1
    /\ LET w == [Now EXCEPT !.rec.doc = @ \cup {edits + 1}, !.rec.dirty = TRUE, !.rec.since = @ + 1]
       IN Become(IF w.rec.since >= SnapshotEvery THEN StoreNow(w, {}) ELSE [w EXCEPT !.rec.timer = TRUE])
    /\ UNCHANGED <<holder, stored>>

\* The debounce timer, or the retry timer.
TimerFires ==
    /\ rec.timer
    /\ Become(IF rec.dirty THEN StoreNow(Now, {}) ELSE [Now EXCEPT !.rec.timer = FALSE])
    /\ UNCHANGED <<holder, stored, edits>>

-----------------------------------------------------------------------------
(* The stores.                                                             *)

\* Slip: any store that settles decides the empty transition.
OwnsAny(c) == TRUE

\* Only the newest store owns the lifecycle.
Owns(c) == c.newest

\* The host answers an issued store.
Settle(i, outcome) ==
    LET c == calls[i]
        w == Released(Now, i)
        empty == rec.unloading /\ rec.refs = 0
        after == IF ~Owns(c) THEN w
                 ELSE CASE outcome = "durable" ->
                             IF ~empty THEN w ELSE IF rec.dirty THEN StoreNow(w, {}) ELSE Unload(w)
                        [] outcome = "declined" ->
                             IF empty THEN [Unload(w) EXCEPT !.gone = @ \cup (rec.doc \ stored)]
                             ELSE Unstored(w)
                        [] outcome = "failed" -> Unstored(w)
    IN /\ c.issued
       /\ \E wrote \in BOOLEAN :
            /\ outcome = "durable" => wrote
            /\ outcome = "declined" => ~wrote
            /\ stored' = IF wrote THEN c.blob ELSE stored
       /\ Become(Report(after, c.tell, outcome))
       /\ UNCHANGED <<holder, edits>>

Answers == \E i \in DOMAIN calls : \E outcome \in {"durable", "declined", "failed"} : Settle(i, outcome)

\* persistNow: what is unstored is stored, and the flush waits for the newest one.
PersistNow(f) ==
    LET joined == [Now EXCEPT !.calls = [i \in DOMAIN @ |->
                                  [@[i] EXCEPT !.waiters = calls[i].waiters \cup {f}]],
                              !.flush[f] = [st |-> "waiting", had |-> rec.doc]]
    IN /\ flush[f].st # "waiting"
       /\ Become(IF rec.topic = "loaded" /\ rec.dirty THEN StoreNow(joined, {f})
                 ELSE IF Newest(Now) = {} THEN Report(joined, {f}, "durable")
                 ELSE [joined EXCEPT !.calls = [i \in DOMAIN @ |->
                        IF @[i].newest THEN [@[i] EXCEPT !.tell = calls[i].tell \cup {f}] ELSE @[i]]])
       /\ UNCHANGED <<holder, stored, edits>>

LastWaiter(c, f) == c.waiters = {f}

\* Its deadline: the writes nobody else waits for are abandoned.
Deadline(f) ==
    LET given == {i \in DOMAIN calls : LastWaiter(calls[i], f)}
        lost  == {i \in given : calls[i].issued}
        kept  == Without([i \in DOMAIN calls |-> i], given)
        w == [Now EXCEPT
                !.calls = [j \in DOMAIN kept |->
                    LET c == calls[kept[j]]
                    IN [c EXCEPT !.waiters = c.waiters \ {f}, !.tell = c.tell \ {f},
                                 !.issued = c.issued \/ kept[j] - 1 \in given]],
                !.flush[f].st = "unconfirmed"]
    IN /\ flush[f].st = "waiting"
       /\ Become(IF given = {} THEN w ELSE Abandoned(w))
       /\ stored' \in {stored} \cup {calls[i].blob : i \in lost}
       /\ UNCHANGED <<holder, edits>>

Next ==
    \/ \E h \in Holder : Acquire(h) \/ Release(h)
    \/ Load \/ LoadFails \/ Drop
    \/ ApplyUpdate \/ TimerFires \/ Answers
    \/ \E f \in Flusher : PersistNow(f) \/ Deadline(f)

\* Timers fire; the host answers, and every so often it writes.
Fairness ==
    /\ WF_vars(Load \/ LoadFails)
    /\ WF_vars(TimerFires)
    /\ WF_vars(Answers)
    /\ SF_vars(\E i \in DOMAIN calls : calls[i].newest /\ Settle(i, "durable"))

Spec == Init /\ [][Next]_vars /\ Fairness

-----------------------------------------------------------------------------

\* An edit is stored in the end, unless it was erased or left to the holder of the
\* lease, and a document nobody holds is unloaded in the end.
EditsSettle ==
    /\ \A e \in Edit : e \in rec.doc ~> e \in stored \cup gone \/ "overlap" \in waivers
    /\ rec.refs = 0 ~> rec.topic = "absent" \/ rec.refs > 0

\* CrdtFlushResult: "if (result.ok) authority.destroy() can never discard bytes".
OkMeansDurable ==
    [][\A f \in Flusher : flush[f].st = "waiting" /\ flush'[f].st = "ok"
                             => rec.doc \subseteq stored']_vars

=============================================================================
