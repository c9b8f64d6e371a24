------------------------------- MODULE MCParts -------------------------------
(***************************************************************************)
(* Parts of a worker and of its clients whose promises are safety ones, one*)
(* part at a time: the registry of sequence numbers, the cut-over of a     *)
(* recovering client, the audit of a relayed stream, the throttle, groups  *)
(* and presence plugins, the authority of a CRDT document, the browser's   *)
(* connection, and its topics twice: two of them, and the numbers of one.  *)
(* `on` names the part a behaviour runs; the others stay in one initial    *)
(* state.                                                                  *)
(***************************************************************************)
EXTENDS SeqBound, GroupRosters, ThrottleTopics, ResumedClients, RelayStream, BrowserLink, CrdtRecord,
        Presence

CONSTANTS
    t1, t2, t3,
    Used, Streamed,
    ws1, ws2, ann, bob

VARIABLES
    on,
    socket, client, server, up, down, newestOf, view

Resume == INSTANCE ResumeCapture
Thr    == INSTANCE Throttle
Client == INSTANCE ClientConnection
Grp    == INSTANCE Group
Doc    == INSTANCE CrdtAuthority
Ledger == INSTANCE ClientTopics WITH Topic <- Used, Numbered <- {}, MaxUses <- 2, MaxAttempts <- 1,
                                     MaxLog <- 0, MaxRefs <- 2, MaxWire <- 2, log <- newestOf
Offset == INSTANCE ClientTopics WITH Topic <- Streamed, Numbered <- Streamed, MaxUses <- 1,
                                     MaxLog <- 3, MaxRefs <- 3, MaxWire <- 2, log <- newestOf

resumeVars == <<log, phase, joined, buffer, seen, missed, again, waived>>
groupVars  == <<open, group, roster, phantoms, nested>>
topicVars  == <<socket, client, server, up, down, newestOf, view>>

PartsInit ==
    /\ on \in {"numbers", "resume", "stream", "throttle", "client", "group", "document",
              "presence", "ledger", "offset"}
    /\ Init /\ (on # "numbers" => clustered)
    /\ Resume!Init
    /\ StreamInit
    /\ Thr!Init /\ (on # "throttle" => mode = "throttle")
    /\ Client!Init /\ (on # "client" => auth)
    /\ Grp!Init
    /\ Doc!Init
    /\ PresenceInit /\ (on # "presence" => owner[ws2] = ann)
    /\ IF on = "ledger" THEN Ledger!Init ELSE Offset!Init

\* The parts but one stay as they are.
Still(part) ==
    /\ part # "numbers"  => UNCHANGED vars
    /\ part # "resume"   => UNCHANGED resumeVars
    /\ part # "stream"   => UNCHANGED streamVars
    /\ part # "throttle" => UNCHANGED throttleVars
    /\ part # "client"   => UNCHANGED clientVars
    /\ part # "group"    => UNCHANGED groupVars
    /\ part # "document" => UNCHANGED crdtVars
    /\ part # "presence" => UNCHANGED presenceVars
    /\ part \notin {"ledger", "offset"} => UNCHANGED topicVars

PartsNext ==
    /\ UNCHANGED on
    /\ \/ on = "numbers"  /\ Next        /\ Still("numbers")
       \/ on = "resume"   /\ Resume!Next /\ Still("resume")
       \/ on = "stream"   /\ StreamNext /\ Still("stream")
       \/ on = "throttle" /\ Thr!Next    /\ Still("throttle")
       \/ on = "client"   /\ Client!Next /\ Still("client")
       \/ on = "group"    /\ Grp!Next    /\ Still("group")
       \/ on = "document" /\ Doc!Next    /\ Still("document")
       \/ on = "presence" /\ PresenceNext /\ Still("presence")
       \/ on = "ledger"   /\ Ledger!Next /\ Still("ledger")
       \/ on = "offset"   /\ Offset!Next /\ Still("offset")

PartsSpec ==
    PartsInit /\ [][PartsNext]_<<on, vars, resumeVars, streamVars, throttleVars, clientVars, groupVars, crdtVars,
                           topicVars, presenceVars>>

ASSUME GroupAssumption

\* Two of the three topics of the registry share a hash.
MCTopics == {t1, t2, t3}
MCHash == [t \in MCTopics |-> IF t = t3 THEN 2 ELSE 1]

\* Another authority issues numbers for two of them.
MCForeign == [t \in MCTopics |-> IF t = t2 THEN {} ELSE {2}]

\* Two sockets of one user, with data that differ, or of two users.
MCOwners == {[s \in Socket |-> ann], [s \in Socket |-> IF s = ws1 THEN ann ELSE bob]}
MCProfile == [s \in Socket |-> IF s = ws1 THEN 0 ELSE 1]

\* A state in which two fields of the roster are set, or two frames lost, or one of each,
\* is checked and not left.
FewAtATime ==
    Cardinality({<<u, f>> \in User \X Field : tracker.users[u].fields[f] = 1})
        + Cardinality({<<s, u>> \in Socket \X User : u \in lostFrames[s]}) <= 1

\* What the parts promise, stated in their modules.
LedgersAgree      == on = "ledger" => Ledger!LedgersAgree
OffsetIsEarned    == on = "offset" => Offset!OffsetIsEarned

=============================================================================
