--------------------------- MODULE MCNutstoreSync ---------------------------
EXTENDS NutstoreSync, TLC

CONSTANTS d1, d2

SafeAuto == {"conditionalMove", "ifMatch"}
AutoSettings == {[kind |-> "text", store |-> SafeAuto]}
AllSettings == AutoSettings \cup [kind : {"binary"}, store : {{}, {"ifMatch"}}]
Symmetric == Permutations(Devices)
=============================================================================
