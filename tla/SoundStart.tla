----------------------------- MODULE SoundStart -----------------------------
(***************************************************************************)
(* The start of the program with the microphone's stream: StartUp, whose   *)
(* Fragment is the callback that reads a fragment into pcmbuf, and         *)
(* PcmCapture, whose chunks are taken by the encoding thread once main has *)
(* created it, which may be long after the first of them, or never.        *)
(***************************************************************************)
EXTENDS StartUp, PcmCapture

soundVars == <<startVars, streamVars>>

SoundInit == StartInit /\ StreamInit

FragmentRead == Fragment /\ \E n \in 1..MaxFragment : ReadFragment(n)

ChunkTaken == /\ proc # "gone" /\ "faac_thread" \in Built
              /\ TakeChunk /\ UNCHANGED startVars

SoundNext == \/ OwnStep /\ UNCHANGED streamVars
             \/ FragmentRead
             \/ ChunkTaken

SoundSpec == SoundInit /\ [][SoundNext]_soundVars /\ StartFairness
=============================================================================
