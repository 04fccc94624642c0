----------------------------- MODULE MCBlaster -----------------------------
(* Two threads; sizes on both sides of each limit of the template.         *)
EXTENDS Blaster

SizeLimits == {1199, 1200, 16433, 16434, 65535, 65536}

=============================================================================
