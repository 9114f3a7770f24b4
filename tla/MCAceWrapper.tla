---------------------------- MODULE MCAceWrapper ----------------------------
EXTENDS AceWrapper

\* Every offset of a 16-byte unsigned space with every size whose range
\* stays inside it: aligned and unaligned starts, heads longer than the
\* request, whole blocks, tails, and the offsets whose rounding wraps to 0.
RequestsMC == {r \in (0..(UIntMod - 1)) \X (0..(UIntMod - 1)) : r[1] + r[2] <= UIntMod}
====
