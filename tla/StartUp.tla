------------------------------ MODULE StartUp ------------------------------
(***************************************************************************)
(* The program's start: main (src/src/main.cpp) with the look-up of the    *)
(* URL (ProTool.cpp), the initialisation of sound (libpcm_aac.cpp,         *)
(* Raspberry_Pi_Record.cpp) and execute (ConsumerThreadTool.cpp), and      *)
(* beside it the thread that talks to the sound server, whose callbacks    *)
(* may end the process at any time.  A function of the start is the        *)
(* sequence of what it builds, with what becomes of a failure:             *)
(*    exit     the process ends, by a return from main or by exit(1)       *)
(*    crash    a null or wild pointer is used                              *)
(*    ignored  main goes on as if it had succeeded                         *)
(*    retry    main is where it was, and tries again after a second        *)
(***************************************************************************)
EXTENDS Naturals, Sequences, FiniteSets

CONSTANT PcmType    \* where sound comes from; main sets "pulse"
ASSUME PcmAssumption == PcmType \in {"alsa", "pulse"}

VARIABLES
    at,         \* how far main is in its steps
    failed,     \* the steps that failed for good
    proc,       \* "up", "exiting" (static objects are destroyed while other
                \* threads still run) or "gone"
    pa,         \* the thread of the sound server and its context and stream
    get_audio,
    frames      \* video has been captured

startVars == <<at, failed, proc, pa, get_audio, frames>>

Does(what, fails) == <<[does |-> what, fails |-> fails]>>

\* No socket or no wlan0.
GetMacAddr == Does("mac", {"exit"})

\* No answer, or none in JSON, is -1.  The URL is assigned to a string that
\* memset has cleared, and without a curl handle the function ends without a
\* result: the URL may then be missing from here on.
GetUrl == Does("url", {"exit", "crash", "ignored"})

GetRTMPUrlInfo == GetMacAddr \o GetUrl

\* Raspberry_Pi_Record_Init.
RecordInit == Does("pcm_device", {"exit"}) \o Does("hw_params", {"exit"})

\* PulseAudioInit, for playing sound, which the program then never does.
PulseInit == Does("pulse", {"exit"})

\* (Mutant: the queue is made by the thread that fills it.)
PcmInitLate == PulseInit \o Does("pa_thread", {"ignored"})
               \o Does("pcm_queue", {})

\* Alsa2PCM::Init; pthread_create never returns less than 0.
PcmInit == IF PcmType = "alsa"
           THEN Does("info", {"exit"}) \o RecordInit \o Does("rec_buff", {"exit"})
           ELSE Does("pcm_queue", {}) \o PulseInit
                \o Does("pa_thread", {"ignored"})

\* (Mutant: a refused configuration is only printed.)
AacInitLax == Does("encoder", {"exit"}) \o Does("configuration", {"ignored"})

\* Pcm2AAC::Init.
AacInit == Does("encoder", {"exit"}) \o Does("configuration", {"exit"})

\* execute(): a device number that does not exist is used all the same, and
\* so are stream settings that could not be made.
Execute == Does("provider", {"exit"}) \o Does("cameras", {"exit"})
           \o Does("session", {"exit", "crash"}) \o Does("settings", {"crash"})
           \o Does("consumer", {"exit"}) \o Does("request", {"exit"})
           \o Does("source", {"exit"}) \o Does("repeat", {"exit"})

\* main(), up to execute's endless loop.
Main == Does("log_lock", {}) \o GetRTMPUrlInfo
        \o Does("librtmp", {}) \o Does("video_queue", {})
        \o PcmInit \o AacInit
        \o Does("audio_queue", {}) \o Does("faac_thread", {"exit"})
        \o Does("connect", {"retry"}) \o Does("aac_header", {"ignored"})
        \o Does("push_video", {"ignored"}) \o Does("push_audio", {"ignored"})
        \o Does("video_fps", {"ignored"}) \o Does("number", {"crash"})
        \o Does("fps_thread", {"ignored"}) \o Execute

StartInit == /\ at = 0 /\ failed = {} /\ proc = "up"
             /\ pa = "none" /\ get_audio = FALSE /\ frames = FALSE

Done == {Main[i].does : i \in 1..at}
Built == Done \ failed
Running == at = Len(Main)
Step == Main[at + 1]

-----------------------------------------------------------------------------
(* main.                                                                    *)

\* Without the URL LibRTMP_Connect passes NULL to RTMP_SetupURL.
MissesUrl == Step.does = "connect" /\ "url" \in failed

Succeed == /\ proc = "up" /\ ~Running /\ ~MissesUrl
           /\ at' = at + 1
           /\ pa' = IF Step.does = "pa_thread" THEN "starting" ELSE pa
           /\ UNCHANGED <<failed, proc, get_audio, frames>>

Ignored == /\ proc = "up" /\ ~Running /\ "ignored" \in Step.fails
           /\ at' = at + 1 /\ failed' = failed \cup {Step.does}
           /\ UNCHANGED <<proc, pa, get_audio, frames>>

Exit == /\ proc = "up" /\ ~Running /\ "exit" \in Step.fails
        /\ proc' = "exiting"
        /\ UNCHANGED <<at, failed, pa, get_audio, frames>>

Crashed == /\ proc = "up" /\ ~Running /\ ("crash" \in Step.fails \/ MissesUrl)
           /\ proc' = "gone"
           /\ UNCHANGED <<at, failed, pa, get_audio, frames>>

Destroyed == /\ proc = "exiting" /\ proc' = "gone"
             /\ UNCHANGED <<at, failed, pa, get_audio, frames>>

Frame == /\ proc # "gone" /\ Running /\ ~frames /\ frames' = TRUE
         /\ UNCHANGED <<at, failed, proc, pa, get_audio>>

-----------------------------------------------------------------------------
(* The thread of the sound server.                                          *)

Sound(from, to) == /\ proc # "gone" /\ pa = from /\ pa' = to
                   /\ UNCHANGED <<at, failed, frames>>

\* pa_context_connect() comes before pa_context_set_state_callback(): a
\* context that fails at once tells nobody, and the main loop waits for ever.
PaConnect == /\ Sound("starting", "waiting") \/ Sound("starting", "deaf")
             /\ UNCHANGED <<proc, get_audio>>

\* state_cb(), PA_CONTEXT_READY.
ContextReady == Sound("waiting", "creating") /\ UNCHANGED <<proc, get_audio>>

\* stream_state_callback(), PA_STREAM_READY.
StreamReady == Sound("creating", "recording") /\ UNCHANGED <<proc, get_audio>>

\* stream_read_callback().
Fragment == Sound("recording", "recording") /\ get_audio' = TRUE /\ UNCHANGED proc

\* The server goes away, or refuses.
ServerLost == /\ Sound("waiting", "lost") \/ Sound("creating", "lost")
                 \/ Sound("recording", "lost")
              /\ UNCHANGED <<proc, get_audio>>

\* (Mutant: state_cb ignores the failure.)
CallbackReturns == Sound("lost", "deaf") /\ UNCHANGED <<proc, get_audio>>

\* stream_state_callback(), or state_cb() when no stream can be made: exit(1).
CallbackEnds == /\ Sound("lost", "ended")
                /\ proc' = IF proc = "up" THEN "exiting" ELSE "gone"
                /\ UNCHANGED get_audio

\* state_cb(), PA_CONTEXT_FAILED: pa_ready is the NULL it was registered with.
ContextFailed == Sound("lost", "ended") /\ proc' = "gone" /\ UNCHANGED get_audio

OwnStep == \/ Succeed \/ Ignored \/ Exit \/ Crashed \/ Destroyed \/ Frame
           \/ PaConnect \/ ContextReady \/ StreamReady
           \/ ServerLost \/ CallbackEnds \/ ContextFailed

StartNext == OwnStep \/ Fragment

\* Threads go on running, and the server can be reached again and again.
StartFairness == /\ SF_startVars(Succeed)
                 /\ WF_startVars(Succeed \/ Exit \/ Crashed \/ Destroyed)
                 /\ WF_startVars(PaConnect) /\ WF_startVars(CallbackEnds)

StartSpec == StartInit /\ [][StartNext]_startVars /\ StartFairness

-----------------------------------------------------------------------------
\* What each thread uses from its first steps on.
Needs == [pa_thread |-> {"pcm_queue"},
          faac_thread |-> {"pcm_queue", "encoder", "configuration", "audio_queue"},
          push_video |-> {"librtmp", "video_queue", "connect"},
          push_audio |-> {"librtmp", "audio_queue", "connect"},
          consumer |-> {"video_queue", "settings", "session"}]

(* Whatever fails, a thread that runs finds what it uses.  (main.cpp)       *)
ThreadsFindWhatTheyUse ==
    \A t \in DOMAIN Needs \cap Built : Needs[t] \subseteq Built

\* Once main waits, all it needs is there except for threads that could not
\* be created; what is missing from sound then shows in get_audio, without
\* which no video is pushed either: it is only set by a stream that records.
\* (main.cpp, libpcm_aac.cpp)
RunningIsWhole ==
    /\ Running => failed \subseteq {"pa_thread", "aac_header", "push_video",
                                    "push_audio", "video_fps", "fps_thread"}
    /\ get_audio => "pa_thread" \in Built /\ pa \in {"recording", "lost", "ended"}

(* The start comes to an end, and a sound server that goes away takes the   *)
(* process with it.  (main.cpp, state_cb)                                   *)
StartUpEnds == /\ <>(Running \/ proc = "gone")
               /\ (pa = "lost") ~> (proc = "gone")

=============================================================================
