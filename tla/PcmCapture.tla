----------------------------- MODULE PcmCapture -----------------------------
(***************************************************************************)
(* How the PulseAudio callback cuts the microphone's stream into chunks:   *)
(* stream_read_callback (src/src/libpcm_aac.cpp), with the AAC encoding    *)
(* thread that takes the chunks (src/src/main.cpp).                        *)
(*                                                                         *)
(* A byte is known by its place in the stream, 1, 2, 3, ...; 0 is a byte   *)
(* of a buffer that has been cleared.  The callback touches pcmbuf and     *)
(* pcmoffset alone, and pushes under pcm_cache_lock, so that reading one   *)
(* fragment is one step.  MediaPipeline has the lock and the threads.      *)
(***************************************************************************)
EXTENDS Integers, Sequences

CONSTANTS
    pac_length,     \* bytes of a chunk
    CACHE_LENGTH,   \* bytes of pcmbuf
    MaxFragment,    \* the largest fragment pa_stream_peek gives
    MaxHeard        \* bound: bytes the microphone gives

(* The program asks the server for fragments of 1024 bytes; a chunk is 2048 *)
(* and pcmbuf 20 * 1024.  A pa_stream_peek that gave more than a chunk at a *)
(* time would fill pcmbuf, for each fragment pushes at most one chunk.      *)
ASSUME SizeAssumption == /\ pac_length \in Nat \ {0}
                         /\ MaxFragment \in 1..pac_length
                         /\ CACHE_LENGTH \in Nat
                         /\ CACHE_LENGTH >= 2 * pac_length
                         /\ MaxHeard \in Nat

VARIABLES
    pcmbuf,     \* [Places -> Bytes]
    pcmoffset,  \* how much of pcmbuf is in use
    chunks,     \* pcm_cache_queue
    heard,      \* bytes read from PulseAudio
    fed         \* the last byte given to the encoder

streamVars == <<pcmbuf, pcmoffset, chunks, heard, fed>>

Places == 0..(CACHE_LENGTH - 1)
Bytes == 0..MaxHeard
Chunk == [0..(pac_length - 1) -> Bytes]

StreamTypeOK == /\ pcmbuf \in [Places -> Bytes]
                /\ pcmoffset \in Nat
                /\ chunks \in Seq(Chunk)
                /\ heard \in Bytes
                /\ fed \in Bytes

StreamInit == /\ pcmbuf = [i \in Places |-> 0]
              /\ pcmoffset = 0
              /\ chunks = <<>>
              /\ heard = 0
              /\ fed = 0

\* memcpy(pcmbuf + pcmoffset, data, n)
Filled(n) == [i \in Places |-> IF i \in pcmoffset..(pcmoffset + n - 1)
                               THEN heard + 1 + i - pcmoffset
                               ELSE pcmbuf[i]]

\* The first pac_length bytes of buf.
Front(buf) == [i \in 0..(pac_length - 1) |-> buf[i]]

\* (Mutant: what is left after a chunk is not moved.)
Cleared(buf, used) == [i \in Places |-> 0]

\* What is left of the used bytes of buf, moved to the front, the rest clear.
Shifted(buf, used) == [i \in Places |-> IF i < used - pac_length
                                        THEN buf[i + pac_length]
                                        ELSE 0]

\* (Mutant: a full chunk is not pushed until one more byte has come.)
ReadLate(n) ==
    LET used == pcmoffset + n
    IN  /\ heard + n <= MaxHeard
        /\ heard' = heard + n
        /\ \/ /\ used <= pac_length
              /\ pcmbuf' = Filled(n)
              /\ pcmoffset' = used
              /\ UNCHANGED chunks
           \/ /\ used > pac_length
              /\ chunks' = Append(chunks, Front(Filled(n)))
              /\ pcmbuf' = Shifted(Filled(n), used)
              /\ pcmoffset' = used - pac_length
        /\ UNCHANGED fed

\* The callback reads a fragment of n bytes: append it and, if that makes a
\* chunk, push the chunk and move what is left to the front.
ReadFragment(n) ==
    LET used == pcmoffset + n
    IN  /\ heard + n <= MaxHeard
        /\ heard' = heard + n
        /\ \/ /\ used < pac_length
              /\ pcmbuf' = Filled(n)
              /\ pcmoffset' = used
              /\ UNCHANGED chunks
           \/ /\ used >= pac_length
              /\ chunks' = Append(chunks, Front(Filled(n)))
              /\ pcmbuf' = Shifted(Filled(n), used)
              /\ pcmoffset' = used - pac_length
        /\ UNCHANGED fed

\* The encoding thread takes the oldest chunk.
TakeChunk == /\ chunks # <<>>
             /\ fed' = Head(chunks)[pac_length - 1]
             /\ chunks' = Tail(chunks)
             /\ UNCHANGED <<pcmbuf, pcmoffset, heard>>

StreamNext == (\E n \in 1..MaxFragment : ReadFragment(n)) \/ TakeChunk

StreamSpec == StreamInit /\ [][StreamNext]_streamVars

-----------------------------------------------------------------------------
(* The memcpy of the next fragment stays inside pcmbuf.                     *)
NoOverflow == pcmoffset + MaxFragment <= CACHE_LENGTH

(* Less than a chunk waits in pcmbuf, although a fragment pushes at most one*)
(* chunk.                                                                   *)
NoBacklog == pcmoffset < pac_length

(* pcmbuf keeps up with the microphone: room for the next fragment, and no  *)
(* chunk left behind in it.  (stream_read_callback)                         *)
KeepsUp == NoOverflow /\ NoBacklog

(* Nothing is lost, repeated or reordered on the way to the encoder: the    *)
(* bytes it has had, those queued and those in pcmbuf are the stream.       *)
LastBefore(k, s, last) == IF k = 1 THEN last ELSE s[k - 1][pac_length - 1]
ChunksFollow(s, last) ==
    \A k \in 1..Len(s) : \A i \in 0..(pac_length - 1) :
       s[k][i] = LastBefore(k, s, last) + 1 + i
LastPushed(s, last) == LastBefore(Len(s) + 1, s, last)
StreamIntact ==
    /\ ChunksFollow(chunks, fed)
    /\ \A i \in 0..(pcmoffset - 1) :
          pcmbuf[i] = LastPushed(chunks, fed) + 1 + i
    /\ heard = LastPushed(chunks, fed) + pcmoffset
=============================================================================
