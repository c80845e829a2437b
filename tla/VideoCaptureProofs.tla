------------------------- MODULE VideoCaptureProofs -------------------------
(***************************************************************************)
(* Theorems about VideoCapture.tla, for any number of frames.              *)
(***************************************************************************)
EXTENDS VideoCapture, TLAPS

\* What a failed open() leaves behind holds a codec context only when copying its
\* parameters has failed.
LEMMA LeftoversHaveNoCodec ==
  ASSUME NEW step \in EarlySteps \cup CodecSteps \cup RgbSteps, NEW h \in Leftovers(step)
  PROVE  /\ h \subseteq Pointers
         /\ step # "copy parameters" => "codec_context_" \notin h
<1>1. CASE step \in {"url", "open input", "stream info"}
  <2>1. h = {}
    BY <1>1 DEF Leftovers
  <2> QED  BY <2>1
<1>2. CASE step = "copy parameters"
  <2>1. h = {"format_context_", "codec_context_"}
    BY <1>2 DEF Leftovers
  <2> QED  BY <1>2, <2>1 DEF Pointers
<1>3. CASE step = "packet and frame"
  <2>1. PICK s \in {{}, {"packet_"}, {"frame_yuv_"}} : h = {"format_context_"} \cup s
    BY <1>3 DEF Leftovers
  <2> QED  BY <2>1 DEF Pointers
<1>4. CASE step \notin {"url", "open input", "stream info", "copy parameters", "packet and frame"}
  <2>1. h = {"format_context_"}
    BY <1>4 DEF Leftovers
  <2> QED  BY <2>1 DEF Pointers
<1> QED  BY <1>1, <1>2, <1>3, <1>4

CInv == CTypeOK /\ ClosedHoldsNothing /\ GrabHasItsBuffers

LEMMA CInitInv == CInit => CInv
<1> SUFFICES ASSUME CInit
             PROVE  CInv
  OBVIOUS
<1>1. CTypeOK
  BY DEF CInit, CTypeOK, PixelFormat
<1>2. ClosedHoldsNothing
  BY DEF CInit, ClosedHoldsNothing
<1>3. ~IsOpen
  BY DEF CInit, IsOpen
<1> QED  BY <1>1, <1>2, <1>3 DEF CInv, GrabHasItsBuffers

LEMMA CNextInv == CInv /\ [CNext]_captureVars => CInv'
<1> SUFFICES ASSUME CInv, [CNext]_captureVars
             PROVE  CInv'
  OBVIOUS
<1> USE DEF CInv
<1>1. ASSUME NEW step \in EarlySteps \cup CodecSteps \cup RgbSteps, NEW format \in PixelFormat,
             NEW device \in {0, 1}, OpenFails(step, format, device)
      PROVE  CInv'
  <2>1. held' \subseteq Pointers /\ (step # "copy parameters" => "codec_context_" \notin held')
    BY <1>1, LeftoversHaveNoCodec DEF OpenFails
  <2>2. step \notin {"new", "closed", "opened"}
    BY DEF EarlySteps, CodecSteps, RgbSteps
  <2>3. devices' \in Nat
    <3>1. devices \in Nat /\ devices' = devices + device
      BY <1>1, Zenon DEF OpenFails, CTypeOK, Tries
    <3> QED  BY <3>1
  <2>4. output_format_' \in PixelFormat
    BY <1>1 DEF OpenFails, CTypeOK
  <2>5. CTypeOK'
    BY <1>1, <2>1, <2>3, <2>4, Zenon DEF OpenFails, CTypeOK
  <2> QED  BY <1>1, <2>1, <2>2, <2>5 DEF OpenFails, ClosedHoldsNothing, GrabHasItsBuffers, IsOpen
<1>2. ASSUME NEW format \in PixelFormat, NEW device \in {0, 1}, OpenSucceeds(format, device)
      PROVE  CInv'
  <2>0. devices' \in Nat /\ held' \subseteq Pointers
    <3>1. devices \in Nat /\ devices' = devices + device
      BY <1>2, Zenon DEF OpenSucceeds, CTypeOK, Tries
    <3>2. held' \in {Pointers, Pointers \ {"frame_rgb_", "sws_context_"}}
      BY <1>2, Zenon DEF OpenSucceeds
    <3> QED  BY <3>1, <3>2
  <2>1. CTypeOK'
    BY <1>2, <2>0, Zenon DEF OpenSucceeds, CTypeOK
  <2>2. GrabHasItsBuffers'
    BY <1>2 DEF OpenSucceeds, GrabHasItsBuffers, Pointers
  <2> QED  BY <1>2, <2>1, <2>2 DEF OpenSucceeds, ClosedHoldsNothing
<1>3. CASE GrabFrame
  <2>1. owned' \in Nat /\ borrowed' \in Nat
    <3>1. owned \in Nat /\ borrowed \in Nat
      BY Zenon DEF CTypeOK
    <3>2. owned' \in {owned, owned + 1} /\ borrowed' \in {borrowed, borrowed + 1}
      BY <1>3, Zenon DEF GrabFrame
    <3> QED  BY <3>1, <3>2
  <2>2. CTypeOK'
    BY <1>3, <2>1, Zenon DEF GrabFrame, CTypeOK
  <2> QED  BY <1>3, <2>2 DEF GrabFrame, ClosedHoldsNothing, GrabHasItsBuffers, IsOpen
<1>4. CASE FreeFrame
  <2>1. owned' \in Nat /\ borrowed' \in Nat
    <3>1. owned \in Nat /\ borrowed \in Nat
      BY Zenon DEF CTypeOK
    <3>2. owned > 0 /\ owned' = owned - 1 /\ borrowed' = borrowed
      BY <1>4, Zenon DEF FreeFrame
    <3> QED  BY <3>1, <3>2
  <2>2. CTypeOK'
    BY <1>4, <2>1, Zenon DEF FreeFrame, CTypeOK
  <2> QED  BY <1>4, <2>2 DEF FreeFrame, ClosedHoldsNothing, GrabHasItsBuffers, IsOpen
<1>5. CASE StartCapture
  BY <1>5 DEF StartCapture, CTypeOK, ClosedHoldsNothing, GrabHasItsBuffers, IsOpen
<1>6. CASE Close
  BY <1>6 DEF Close, CTypeOK, ClosedHoldsNothing, GrabHasItsBuffers, IsOpen, PixelFormat
<1>7. CASE UNCHANGED captureVars
  BY <1>7 DEF captureVars, CTypeOK, ClosedHoldsNothing, GrabHasItsBuffers, IsOpen
<1> QED  BY <1>1, <1>2, <1>3, <1>4, <1>5, <1>6, <1>7 DEF CNext

\* close() leaves no pointer of the object behind, whatever open() has done.
THEOREM CaptureClosedHoldsNothing == CSpec => []ClosedHoldsNothing
<1>1. CInv => ClosedHoldsNothing
  BY DEF CInv
<1> QED  BY <1>1, CInitInv, CNextInv, PTL DEF CSpec

\* grab_frame() has the buffers it uses whenever it is not refused, but for the
\* one failure of open() that leaves a codec context behind.
THEOREM CaptureGrabHasItsBuffers == CSpec => []GrabHasItsBuffers
<1>1. CInv => GrabHasItsBuffers
  BY DEF CInv
<1> QED  BY <1>1, CInitInv, CNextInv, PTL DEF CSpec
=============================================================================
