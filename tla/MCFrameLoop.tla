----------------------------- MODULE MCFrameLoop -----------------------------
(* FrameLoop for TLC: three images, as in a swapchain with a mailbox. *)
EXTENDS FrameLoop

MCImageCount == 3
=============================================================================
