--------------------------- MODULE MCVideoStream ---------------------------
(* Keyframe recovery on the shortest pipe: an MFT with room for one frame,  *)
(* one packet queued at most, one in the socket.                            *)
EXTENDS VideoStream
=============================================================================
