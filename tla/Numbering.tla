----------------------------- MODULE Numbering -----------------------------
(***************************************************************************)
(* LoadStoreNumbering (trace/src/Utility/LoadStoreNumbering.cpp): the pass *)
(* that runs before the instrumentation and gives each instruction it      *)
(* visits an id, ++count over the whole module, kept as "dgls" metadata;   *)
(* and QueryLoadStoreNumbers, which reads the metadata back into the maps  *)
(* the instrumentation's getInstNum queries.                               *)
(*                                                                         *)
(* A module is a sequence of function bodies (sequences of instructions of *)
(* Instrument); an instruction is named by <<function, index>>.            *)
(***************************************************************************)
EXTENDS Integers, Sequences, FiniteSets, Instrument

\* The visitor hooks of LoadStoreNumberPass: loads, stores, fences, atomic
\* RMW / CAS, GEPs and selects, and visitCallInst, which InstVisitor reaches
\* for every call, inline asm and memory or debug intrinsic.  visitCallInst
\* skips calls of annotated runtime functions; the module numbered is not yet
\* instrumented, so it has none.  Phis and other values are not visited.
NumberedOp(ins) == ins.op \notin {"phi", "other"}

\* Variant: the id is assigned before count is incremented (count++).
NumberFromPost(body, i, count) ==
  [k \in 1..Len(body) - i + 1 |->
     IF NumberedOp(body[i + k - 1])
     THEN count + Cardinality({j \in i..i + k - 2 : NumberedOp(body[j])})
     ELSE 0]

\* assignID(&I, ++count) for each visited instruction of a function from
\* index i on; 0 stands for an instruction with no id.
RECURSIVE NumberFrom(_, _, _)
NumberFrom(body, i, count) ==
  CASE i > Len(body)       -> <<>>
    [] NumberedOp(body[i]) -> <<count + 1>> \o NumberFrom(body, i + 1, count + 1)
    [] OTHER               -> <<0>> \o NumberFrom(body, i + 1, count)

\* runOnModule: count starts at 0 and visit(&M) walks the functions in
\* module order, carrying count from one to the next.
RECURSIVE NumberModule(_, _, _)
NumberModule(funcs, k, count) ==
  IF k > Len(funcs) THEN <<>>
  ELSE LET ids == NumberFrom(funcs[k], 1, count)
       IN  <<ids>> \o NumberModule(funcs, k + 1,
                                   count + Cardinality({i \in 1..Len(funcs[k]) :
                                                          NumberedOp(funcs[k][i])}))

\* QueryLoadStoreNumbers::runOnModule: IDMap (instruction -> id) and
\* InstMap (id -> instruction) from the metadata pairs.
IDMap(ids) ==
  LET Named == UNION {{<<k, i>> : i \in DOMAIN ids[k]} : k \in DOMAIN ids}
  IN  [n \in {n \in Named : ids[n[1]][n[2]] # 0} |-> ids[n[1]][n[2]]]

InstMap(idmap) ==
  [id \in {idmap[n] : n \in DOMAIN idmap} |-> CHOOSE n \in DOMAIN idmap : idmap[n] = id]

\* The asserts of QueryLoadStoreNumbers::runOnModule: no id is 0, and no
\* instruction or identifier is inserted twice.
QueryAssertsHold(idmap) ==
  \A n1, n2 \in DOMAIN idmap : n1 # n2 => idmap[n1] # idmap[n2]

\* getInstNum: getID of the instruction, 0 when it has none.
getInstNum(idmap, k, i) == IF <<k, i>> \in DOMAIN idmap THEN idmap[<<k, i>>] ELSE 0
=============================================================================
