---------------------------- MODULE VideoCapture ----------------------------
(***************************************************************************)
(* VideoToolKit::VideoCapture (src/VdCapture/VideoCapture.cpp): what an    *)
(* object holds of FFmpeg while it is opened, read from and closed.        *)
(*                                                                         *)
(* One thread uses the object.  open() stops at the first step that fails, *)
(* with what it has allocated by then; av_..._free() and                   *)
(* avformat_close_input() reset the pointers they are given, and so does   *)
(* avformat_open_input() when it fails.                                    *)
(*                                                                         *)
(* The thread pool is never started, so its stop() refuses, and            *)
(* destroy_thread_pool() fails from the first open() on: every later       *)
(* open() is refused, and close() goes on without it.                      *)
(*                                                                         *)
(* start_capture() refuses an object that does not capture (line 265), so  *)
(* is_capturing_ stays FALSE, capture_loop() never runs, frame_queue_      *)
(* stays empty and get_frame_async() refuses.  There are no actions for    *)
(* what cannot happen, and none for calls that change nothing.             *)
(***************************************************************************)
EXTENDS Naturals

CONSTANT MaxFrames  \* a bound on the calls of grab_frame() that succeed

ASSUME CaptureAssumption == MaxFrames \in Nat

VARIABLES
  thread_pool_,    \* TRUE when there is one
  held,            \* the pointers of the object that are not null
  output_format_,
  is_capturing_,
  phase,           \* (history) "opened", "closed", or the step of open() that failed
  answer,          \* (history) what the last start_capture() returned
  owned,           \* (history) frames handed out as copies and not yet freed
  borrowed,        \* (history) how often frame_yuv_ itself was handed out
  devices          \* (history) references to hardware devices that nothing gives back

captureVars ==
  <<thread_pool_, held, output_format_, is_capturing_, phase, answer, owned, borrowed, devices>>

Pointers == {"format_context_", "codec_context_", "packet_", "frame_yuv_", "frame_rgb_",
             "sws_context_"}

PixelFormat == {"Auto", "YUV", "RGB"}

\* The steps of open() that may fail, in four groups.
EarlySteps == {"url", "open input", "stream info", "no stream", "decoder", "allocate codec",
               "copy parameters"}

CodecSteps == {"open codec", "packet and frame"}

RgbSteps == {"RGB frame", "RGB buffer", "scaler"}

\* A pointer to what was freed is not kept.
CTypeOK ==
  /\ thread_pool_ \in BOOLEAN
  /\ held \subseteq Pointers
  /\ output_format_ \in PixelFormat
  /\ is_capturing_ \in BOOLEAN
  /\ phase \in {"new", "opened", "closed"} \cup EarlySteps \cup CodecSteps \cup RgbSteps
  /\ answer \in {"none", "not opened", "already started"}
  /\ owned \in Nat
  /\ borrowed \in Nat
  /\ devices \in Nat

CInit ==
  /\ thread_pool_ = FALSE
  /\ held = {}
  /\ output_format_ = "Auto"
  /\ is_capturing_ = FALSE
  /\ phase = "new"
  /\ answer = "none"
  /\ owned = 0 /\ borrowed = 0 /\ devices = 0

-----------------------------------------------------------------------------
(* open(source_url, use_gpu, output_format)                                *)

\* What the object may hold after a step has failed.  (Faulty variant: the
\* codec is not freed when it cannot be opened.)
LeftoversKeepCodec(step) ==
  CASE step \in {"url", "open input", "stream info"} -> {{}}
    [] step \in {"copy parameters", "open codec"} -> {{"format_context_", "codec_context_"}}
    [] step = "packet and frame" ->
         {{"format_context_"} \cup s : s \in {{}, {"packet_"}, {"frame_yuv_"}}}
    [] OTHER -> {{"format_context_"}}

Leftovers(step) ==
  CASE step \in {"url", "open input", "stream info"} -> {{}}
    [] step = "copy parameters" -> {{"format_context_", "codec_context_"}}
    [] step = "packet and frame" ->
         {{"format_context_"} \cup s : s \in {{}, {"packet_"}, {"frame_yuv_"}}}
    [] OTHER -> {{"format_context_"}}

\* use_gpu is tried after the early steps, and dropped when it fails.
Tries(step, device) ==
  /\ device \in (IF step \in EarlySteps THEN {0} ELSE {0, 1})
  /\ devices' = devices + device

OpenFails(step, format, device) ==
  /\ ~thread_pool_
  /\ step \in RgbSteps => format = "RGB"
  /\ thread_pool_' = TRUE
  /\ held' \in Leftovers(step)
  /\ output_format_' = IF step = "url" THEN output_format_ ELSE format
  /\ phase' = step
  /\ Tries(step, device)
  /\ UNCHANGED <<is_capturing_, answer, owned, borrowed>>

OpenSucceeds(format, device) ==
  /\ ~thread_pool_
  /\ thread_pool_' = TRUE
  /\ held' = IF format = "RGB" THEN Pointers ELSE Pointers \ {"frame_rgb_", "sws_context_"}
  /\ output_format_' = format
  /\ phase' = "opened"
  /\ Tries("opened", device)
  /\ UNCHANGED <<is_capturing_, answer, owned, borrowed>>

-----------------------------------------------------------------------------
IsOpen == {"format_context_", "codec_context_"} \subseteq held

\* With no packet_ it does what av_read_frame() does with a null pointer.
GrabFrame ==
  /\ IsOpen /\ "packet_" \in held
  /\ owned + borrowed < MaxFrames
  /\ IF output_format_ = "RGB"
     THEN owned' = owned + 1 /\ UNCHANGED borrowed
     ELSE borrowed' = borrowed + 1 /\ UNCHANGED owned
  /\ UNCHANGED <<thread_pool_, held, output_format_, is_capturing_, phase, answer, devices>>

\* The program frees a copy.
FreeFrame ==
  /\ owned > 0
  /\ owned' = owned - 1
  /\ UNCHANGED <<thread_pool_, held, output_format_, is_capturing_, phase, answer, borrowed, devices>>

StartCapture ==
  /\ ~is_capturing_
  /\ answer' = IF IsOpen THEN "already started" ELSE "not opened"
  /\ UNCHANGED <<thread_pool_, held, output_format_, is_capturing_, phase, owned, borrowed, devices>>

\* (Faulty variant: what is left of an open() that failed is not freed.)
CloseOnlyOpen ==
  /\ held' = IF IsOpen THEN {} ELSE held
  /\ output_format_' = "Auto"
  /\ is_capturing_' = FALSE
  /\ phase' = "closed"
  /\ UNCHANGED <<thread_pool_, answer, owned, borrowed, devices>>

Close ==
  /\ held' = {}
  /\ output_format_' = "Auto"
  /\ is_capturing_' = FALSE
  /\ phase' = "closed"
  /\ UNCHANGED <<thread_pool_, answer, owned, borrowed, devices>>

CNext ==
  \/ \E step \in EarlySteps \cup CodecSteps \cup RgbSteps, format \in PixelFormat, device \in {0, 1} :
       OpenFails(step, format, device)
  \/ \E format \in PixelFormat, device \in {0, 1} : OpenSucceeds(format, device)
  \/ GrabFrame
  \/ FreeFrame
  \/ StartCapture
  \/ Close

CSpec == CInit /\ [][CNext]_captureVars

-----------------------------------------------------------------------------
(* Properties.                                                             *)

\* close() gives everything back that a pointer leads to, at whatever step
\* open() failed.
ClosedHoldsNothing == phase \in {"new", "closed"} => held = {}

\* A grab_frame() that is not refused has all it needs: after an open() that
\* failed it is refused, but for one step, at which the codec is left behind.
GrabHasItsBuffers ==
  IsOpen /\ phase # "copy parameters" =>
    /\ {"packet_", "frame_yuv_"} \subseteq held
    /\ output_format_ = "RGB" => {"frame_rgb_", "sws_context_"} \subseteq held
=============================================================================
