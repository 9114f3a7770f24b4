---------------------------- MODULE MCNvmmRange ----------------------------
EXTENDS NvmmRange

CONSTANTS a1, a2, mnt

MCAccessors == {a1, a2}
\* A DRAM object below the device and one inside it; the device maps one
\* page at 8, or dax_direct_access fails with a negative errno.
MCPtrs    == {2, 9}
MCKAddrs  == {8}
MCDaxRets == {1, -3}
====
