------------------------------ MODULE MCClassTree ------------------------------
(* Instances of ClassTree for TLC.                                         *)
EXTENDS ClassTree

CONSTANTS A, B, C, D, G, H, T, U, N

Of(generic, argument) == [generic_class |-> generic, arguments |-> <<argument>>]

ListsUpTo(classes, length) ==
  {s \in BoundedSeq(classes, length) : IsInjective(s)}

(* Four classes without type parameters, up to two bases each: chains,     *)
(* diamonds, cycles of every length and undefined bases, in every order.   *)
MCNormalClasses == {A, B, C, D}
MCNormalHeritage == ListsUpTo(Class, 2)

(* Two generic classes of one parameter with constructed bases, and one    *)
(* base that is a bare generic class.                                      *)
MCOneClass == {A}
MCGenericClasses == {G, H}
MCParameters == G :> <<T>> @@ H :> <<U>>
MCGenericHeritage ==
  {<<>>, <<G>>, <<Of(G, N)>>, <<Of(H, T)>>, <<A, Of(G, U)>>,
   <<Of(H, T), Of(H, N)>>}
MCReferences == {Of(G, N), Of(H, N)}

MCNothing == {}
MCNoParameters == [g \in {} |-> <<>>]

Symmetry == Permutations({A, B, C, D})
=============================================================================
