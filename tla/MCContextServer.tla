--------------------------- MODULE MCContextServer ---------------------------
(* A small instance of ContextServer, the sizes scaled down together. *)
EXTENDS ContextServer, TLC

CONSTANTS pa, pb, ps,           \* src/a and src__a share a flat name; ps is secret
          empty, short, wide    \* documents of 0, 2 and 4 lines

FlatMC == pa :> "src__a" @@ pb :> "src__a" @@ ps :> "secret"
LinesMC == empty :> 0 @@ short :> 2 @@ wide :> 4

Upto(a, b, c, d) == [n \in 0..4 |-> CASE n = 0 -> 0 [] n = 1 -> a [] n = 2 -> a + b
                                      [] n = 3 -> a + b + c [] n = 4 -> a + b + c + d]
\* The lines of `wide' have characters of several bytes; its third is larger than a part.
BytesMC == empty :> Upto(1, 0, 0, 0) @@ short :> Upto(3, 3, 0, 0) @@ wide :> Upto(3, 4, 9, 2)
CharsMC == empty :> Upto(1, 0, 0, 0) @@ short :> Upto(3, 3, 0, 0) @@ wide :> Upto(3, 3, 3, 2)

Text(a, b) == pa :> a @@ pb :> b @@ ps :> short
TextsMC == {Text(wide, wide), Text(short, wide), Text(empty, short)}

All(p) == [path |-> p, first |-> 0, last |-> 0]
Range(p, first, last) == [path |-> p, first |-> first, last |-> last]

RequestsMC == {
    <<>>, <<All(pa)>>, <<All(pa), All(pb)>>, <<All(pb), All(pa), All(pb)>>,
    <<Range(pa, 2, 9), Range(pb, 1, 1), Range(pb, 1, 1), Range(pa, 2, 3)>>,
    <<Range(pa, 1, 1), Range(pa, 2, 2), Range(pb, 1, 1), Range(pb, 2, 2)>>,
    <<Range(pa, 3, 2)>>, <<All(pa), All(ps)>> }
=============================================================================
