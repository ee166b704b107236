--------------------------- MODULE MCDecodeEncode ---------------------------
(* Values of the constants of DecodeEncode for TLC.                        *)
EXTENDS DecodeEncode

PassAndAudio == <<"pass", "audio">>
VideoAndPass == <<"video", "pass">>
OnlyAudio    == <<"audio">>

(* With MaxPtsOffset = 4: the second pass-through sample waits for the     *)
(* last audio sample.  In the other pair a sample of each is decode-only.  *)
PassAndAudioTimes == << <<0, 12>>, <<0, 8>> >>
VideoAndPassTimes == << <<-1, 0, 8>>, <<-1, 12>> >>
OneAtZero         == << <<0>> >>
=============================================================================
