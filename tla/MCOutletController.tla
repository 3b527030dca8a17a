------------------------- MODULE MCOutletController -------------------------
(* Three outlets: one channel of two outlets with opposite orders, one of one. *)
EXTENDS OutletController

MCChannel == {"pair", "single"}
MCOutlets == [c \in MCChannel |-> IF c = "pair" THEN <<1, 3>> ELSE <<2>>]
MCOnOrder == [c \in MCChannel |-> IF c = "pair" THEN <<2, 1>> ELSE << >>]
MCStateDelays == {0, 1}
MCOffOrder == [c \in MCChannel |-> << >>]
=============================================================================
