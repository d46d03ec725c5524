---------------------------- MODULE MCPixelHash -----------------------------
(* An instance of PixelHash for TLC: words of eight bits.                    *)
EXTENDS PixelHash

SomePixels == {0, 1, 2, 3, 15, 16, 127, 128, 200, 254, 255}
SomeSizes == {-1, 0, 1, 2}
=============================================================================
