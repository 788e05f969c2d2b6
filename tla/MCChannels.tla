----------------------------- MODULE MCChannels -----------------------------
(* Instances of Channels for TLC.                                          *)
EXTENDS Channels

(* Three transfers on one resource and one on another.  With at most three *)
(* sharing, times and bytes that are multiples of 108 keep every share      *)
(* whole.                                                                  *)
ThreeAndOne == <<1, 1, 1, 2>>
Setups == <<0, 216, 108, 216>>
Bandwidths == <<1, 1, 1, 2>>
=============================================================================
