---------------------------- MODULE MCFrameCodec ----------------------------
EXTENDS FrameCodec, TLC
=============================================================================
