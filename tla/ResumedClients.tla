--------------------------- MODULE ResumedClients ---------------------------
(***************************************************************************)
(* What a worker and the clients of one topic hold while the clients       *)
(* recover, and what the cut-over promises them.  The steps are those of   *)
(* ResumeCapture.                                                          *)
(***************************************************************************)
EXTENDS Integers, FiniteSets

CONSTANTS
    Clients,
    MaxLogged,  \* bound on the frames published
    MaxFrames   \* MAX_RESUME_BUFFERED_FRAMES

ASSUME ResumeAssumption == MaxLogged \in Nat /\ MaxFrames \in Nat

VARIABLES
    log,      \* the topic's newest sequence number, kept by the backend as well
    phase,    \* client -> "away", "resuming", "live", "closed"
    joined,   \* client -> the native membership is installed
    buffer,   \* client -> its capture entry, and what its awaited hook has done
    seen,     \* client -> the highest number it received, its resume offset
    missed,   \* client -> numbers below it that it never received
    again,    \* history: a reporting hook's client was handed a frame twice
    waived    \* history: client -> why it may have a hole: "raced", "threw"

\* A capture entry, and what its awaited hook has done.
Entries == [frames : SUBSET (1..MaxLogged), overflow : BOOLEAN, before : 0..MaxLogged,
            offset : 0..MaxLogged, covered : -1..MaxLogged,
            hook : {"none", "awaited", "read", "returned"}]

ResumeTypeOK ==
    /\ log \in 0..MaxLogged
    /\ phase \in [Clients -> {"away", "resuming", "live", "closed"}]
    /\ joined \in [Clients -> BOOLEAN]
    /\ buffer \in [Clients -> Entries]
    /\ \A c \in Clients : Cardinality(buffer[c].frames) <= MaxFrames
    /\ seen \in [Clients -> 0..MaxLogged]
    /\ missed \in [Clients -> SUBSET (1..MaxLogged)]
    /\ again \in [Clients -> BOOLEAN]
    /\ waived \in [Clients -> SUBSET {"raced", "threw"}]

Trusting(c) == phase[c] = "live" /\ waived[c] = {}

\* When the hook reports what it covered, the cut-over hands over no frame twice.
NoRepeat == \A c \in Clients : Trusting(c) => ~again[c]

\* A client that was acked live after its recovery holds every frame up to the
\* newest: whatever the interleaving of publishes, the backend read, a capture
\* past its cap and a socket that refuses frames or markers, it was given the
\* frame, told to start afresh, or cut off. A hook that threw is left out
\* (docs/errors.md says that hole is not reported), a raced install as well (see
\* RacedHasNoGap of ResumeCapture).
NoSilentGap ==
    /\ ResumeTypeOK
    /\ NoRepeat
    /\ \A c \in Clients : Trusting(c) => missed[c] = {} /\ seen[c] = log

=============================================================================
