----------------------------- MODULE FramePath -----------------------------
(***************************************************************************)
(* The frame path of the S-CORE adapter: a thread that connects to the     *)
(* frame assembler, splits the stream it reads into frames and sends each  *)
(* on the skeleton, which the main thread offers before it and destroys    *)
(* after it.                                                               *)
(*                                                                         *)
(* A byte is the frame it belongs to and its place in it; the assembler    *)
(* begins each connection with a frame.  A frame that finds no free slot   *)
(* of the skeleton is dropped after it was handed on.                      *)
(***************************************************************************)
EXTENDS Integers, Sequences, FiniteSets

CONSTANTS
    PrefixBytes,   \* kPrefixBytes
    SampleBytes,   \* kFrameSampleBytes, the prefix included
    Lengths,       \* the lengths of the frames that are sent
    MaxFrames,     \* bound: frames
    MaxConnections \* bound: connections

ASSUME FrameAssumption ==
    /\ PrefixBytes \in Nat \ {0} /\ SampleBytes \in Nat /\ SampleBytes >= PrefixBytes
    /\ Lengths \subseteq Nat
    /\ MaxFrames \in Nat /\ MaxConnections \in Nat

VARIABLES
    client,      \* where the frame thread is
    connections, \* connections_
    length,      \* length[f]: the length of frame f, of those begun
    place,       \* the bytes of the last frame that were received
    splitter,    \* state_, prefix_, sample_, sample_expected_, skip_remaining_
    offered,     \* FramePathController::offered_, and the skeleton
    frameStop,   \* the flag that ends the thread
    forwarded,   \* history: the samples handed to OnFrame, and the offer then
    received     \* history: the frames whose last byte was received

stream == <<connections, length, place>>
frameVars == <<client, connections, length, place, splitter, offered, frameStop, forwarded,
               received>>

Clear == [state |-> "prefix", prefix |-> <<>>, sample |-> <<>>, expected |-> 0, skip |-> 0]

(* The skeleton is offered, then the thread begins.                        *)
FrameInit ==
    /\ client = "connect" /\ connections = 0
    /\ length = <<>> /\ place = 0
    /\ splitter = Clear
    /\ offered = TRUE /\ frameStop = FALSE
    /\ forwarded = <<>> /\ received = {}

-----------------------------------------------------------------------------
(* The splitter.                                                           *)

Last == Len(length)
Bytes(f) == [k \in 1 .. PrefixBytes + length[f] |-> [frame |-> f, k |-> k]]
Begun == Last > 0 /\ place < PrefixBytes + length[Last]

(* What the four bytes say: the length of a frame if they are its prefix,  *)
(* and any length if they are not.                                         *)
Said(prefix) ==
    IF \E f \in 1 .. Last : prefix = SubSeq(Bytes(f), 1, PrefixBytes)
    THEN {length[prefix[1].frame]} ELSE Lengths

TooLarge(size) == size > SampleBytes

OnFrame(sample) == forwarded' = Append(forwarded, [sample |-> sample, offered |-> offered])

StartFrame(prefix, said) ==
    IF TooLarge(PrefixBytes + said)
    THEN splitter' = [Clear EXCEPT !.state = "skip", !.skip = said] /\ UNCHANGED forwarded
    ELSE IF said = 0 THEN splitter' = Clear /\ OnFrame(prefix)
    ELSE /\ splitter' = [Clear EXCEPT !.state = "frame", !.sample = prefix,
                                      !.expected = PrefixBytes + said]
         /\ UNCHANGED forwarded

FeedPrefix(byte) ==
    /\ splitter.state = "prefix"
    /\ LET prefix == Append(splitter.prefix, byte)
       IN  IF Len(prefix) < PrefixBytes
           THEN splitter' = [splitter EXCEPT !.prefix = prefix] /\ UNCHANGED forwarded
           ELSE \E said \in Said(prefix) : StartFrame(prefix, said)

FeedFrame(byte) ==
    /\ splitter.state = "frame"
    /\ LET sample == Append(splitter.sample, byte)
       IN  IF Len(sample) < splitter.expected
           THEN splitter' = [splitter EXCEPT !.sample = sample] /\ UNCHANGED forwarded
           ELSE splitter' = Clear /\ OnFrame(sample)

FeedSkip ==
    /\ splitter.state = "skip"
    /\ splitter' = IF splitter.skip = 1 THEN Clear ELSE [splitter EXCEPT !.skip = @ - 1]
    /\ UNCHANGED forwarded

(* How the bytes come in pieces does not matter: one byte is one step.     *)
Feed(byte) == FeedPrefix(byte) \/ FeedFrame(byte) \/ FeedSkip

\* Mutant: what is left to skip is forgotten by the next frame only.
ResetFrame == [splitter EXCEPT !.prefix = <<>>, !.sample = <<>>]

Reset == Clear

-----------------------------------------------------------------------------
(* The thread: FrameStreamClient::Run.                                     *)

Connect ==
    /\ client = "connect" /\ ~frameStop
    /\ connections < MaxConnections
    /\ client' = "stream"
    /\ connections' = connections + 1
    /\ UNCHANGED <<length, place, splitter, offered, frameStop, forwarded, received>>

(* The assembler begins a frame, when the one before has been received.    *)
BeginFrame(n) ==
    /\ client = "stream" /\ ~Begun
    /\ Last < MaxFrames
    /\ length' = Append(length, n)
    /\ place' = 0
    /\ UNCHANGED <<client, connections, splitter, offered, frameStop, forwarded, received>>

Receive ==
    /\ client = "stream"
    /\ Begun
    /\ place' = place + 1
    /\ Feed(Bytes(Last)[place'])
    /\ received' = IF place' = PrefixBytes + length[Last] THEN received \cup {Last} ELSE received
    /\ UNCHANGED <<client, connections, length, offered, frameStop>>

(* The stream ends, or the stop is seen between two reads.  What was under *)
(* way is lost: the rest of a frame is never received.                     *)
EndStream ==
    /\ client = "stream"
    /\ client' = IF frameStop THEN "ended" ELSE "connect"
    /\ splitter' = Reset
    /\ place' = IF Begun THEN PrefixBytes + length[Last] ELSE place
    /\ UNCHANGED <<connections, length, offered, frameStop, forwarded, received>>

(* The stop is seen before the next connection; the wait ends early.       *)
EndThread ==
    /\ client = "connect" /\ frameStop
    /\ client' = "ended"
    /\ UNCHANGED <<stream, splitter, offered, frameStop, forwarded, received>>

-----------------------------------------------------------------------------
(* The main thread at its end.                                             *)

StopFrames ==
    /\ ~frameStop
    /\ frameStop' = TRUE
    /\ UNCHANGED <<client, stream, splitter, offered, forwarded, received>>

\* Mutant: the skeleton is destroyed before the thread is joined.
Flagged == frameStop

Joined == frameStop /\ client = "ended"

DestroySkeleton ==
    /\ offered
    /\ Joined
    /\ offered' = FALSE
    /\ UNCHANGED <<client, stream, splitter, frameStop, forwarded, received>>

FrameNext ==
    \/ Connect \/ (\E n \in Lengths : BeginFrame(n)) \/ Receive \/ EndStream \/ EndThread
    \/ StopFrames \/ DestroySkeleton

FrameSpec == FrameInit /\ [][FrameNext]_frameVars

-----------------------------------------------------------------------------
(* Properties.                                                             *)

ByteSet == [frame : 1 .. MaxFrames, k : Nat]

FrameTypeOK ==
    /\ client \in {"connect", "stream", "ended"}
    /\ connections \in 0 .. MaxConnections
    /\ length \in Seq(Lengths) /\ Last <= MaxFrames
    /\ place \in Nat
    /\ splitter.state \in {"prefix", "frame", "skip"}
    /\ splitter.prefix \in Seq(ByteSet) /\ splitter.sample \in Seq(ByteSet)
    /\ splitter.expected \in Nat /\ splitter.skip \in Nat
    /\ offered \in BOOLEAN /\ frameStop \in BOOLEAN
    /\ received \subseteq 1 .. MaxFrames

Fits(f) == PrefixBytes + length[f] <= SampleBytes

(* What is handed on are the frames that fit, each whole and as it was     *)
(* sent, each once and in order, while the skeleton is offered: none is    *)
(* pieced together from two connections, and one that is torn or too large *)
(* takes nothing of the next with it.                                      *)
ForwardedAsSent ==
    LET fitting == {f \in received : Fits(f)}
    IN  /\ Len(forwarded) = Cardinality(fitting)
        /\ \A i \in DOMAIN forwarded :
               /\ forwarded[i].offered
               /\ \E f \in fitting :
                      /\ forwarded[i].sample = Bytes(f)
                      /\ i = Cardinality({g \in fitting : g <= f})
=============================================================================
