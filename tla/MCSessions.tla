----------------------------- MODULE MCSessions -----------------------------
(* Video modes for the model-checking runs of Sessions.                    *)
EXTENDS Sessions

(* A text mode that takes two packets, one that takes one, and graphics.   *)
ThreeModes == [long |-> 3, short |-> 1, graphics |-> 3]
OneMode    == [long |-> 3]
=============================================================================
