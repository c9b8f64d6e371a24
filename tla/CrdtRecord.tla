----------------------------- MODULE CrdtRecord -----------------------------
(***************************************************************************)
(* What the authority of one CRDT document keeps (plugins/crdt/            *)
(* replica.js), with its mounts, its callers and the host's backend, and   *)
(* what it promises of the edits.  CrdtAuthority says how it changes.      *)
(***************************************************************************)
EXTENDS Integers, Sequences, FiniteSets

CONSTANTS
    Holder,          \* mounts that acquire and release the document
    Flusher,         \* callers of persistNow
    MaxEdits,        \* bound on the edits
    SnapshotEvery    \* snapshotEvery

\* What the constants must satisfy: snapshotEvery is at least one.
ASSUME CrdtAssumption ==
    IsFiniteSet(Holder) /\ MaxEdits \in Nat /\ SnapshotEvery \in Nat \ {0}

VARIABLES
    rec,      \* the record of the topic, see Cold of CrdtAuthority
    calls,    \* its stores in flight, oldest first
    holder,   \* mount -> "none", "joining", "held", "dropped"
    flush,    \* caller -> its persistNow and the outcome
    stored,   \* external: the edits in the backend
    edits,    \* history: the number of edits accepted
    gone,     \* history: edits erased, or left to the holder of the lease
    waivers   \* history: "overlap", two stores in flight uncancelled; "stolen",
              \* a mount released after the drop of its replica

crdtVars == <<rec, calls, holder, flush, stored, edits, gone, waivers>>

Edit == 1..MaxEdits

-----------------------------------------------------------------------------

CrdtTypeOK ==
    /\ rec.topic \in {"absent", "loading", "loaded"} /\ rec.refs \in 0..Cardinality(Holder)
    /\ rec.since \in 0..SnapshotEvery /\ rec.doc \subseteq Edit /\ (rec.topic # "loaded" => rec.doc = {})
    /\ \A i \in DOMAIN calls : calls[i].newest => i = Len(calls)
    /\ holder \in [Holder -> {"none", "joining", "held", "dropped"}]
    /\ flush \in [Flusher -> [st : {"idle", "waiting", "ok", "unconfirmed"}, had : SUBSET Edit]]
    /\ stored \cup gone \subseteq 1..edits
    /\ waivers \subseteq {"overlap", "stolen"}

\* No edit is lost to the schedule: one the replica accepted is in the backend,
\* or in the replica, and what the backend lacks of the replica is captured by the
\* newest store in flight or waits, dirty, for a timer. So a replica is never
\* unloaded with unstored edits, whichever of its stores failed, was declined or
\* was given up, and in whatever order they settled; and a mount that holds the
\* document finds it loaded. A flush that reported ok covers what it was called for.
NoEditIsLost ==
    /\ CrdtTypeOK
    /\ "overlap" \notin waivers =>
        /\ 1..edits \subseteq stored \cup gone \cup rec.doc
        /\ \/ rec.doc \subseteq stored
           \/ rec.dirty /\ rec.timer
           \/ \E i \in DOMAIN calls : calls[i].newest /\ calls[i].blob = rec.doc
        /\ \A f \in Flusher : flush[f].st = "ok" => flush[f].had \subseteq stored
    /\ "stolen" \notin waivers =>
        /\ rec.refs = Cardinality({h \in Holder : holder[h] = "held"})
        /\ \A h \in Holder : holder[h] = "held" => rec.topic = "loaded"

=============================================================================
