--------------------------- MODULE MCGckEnumerator ---------------------------
(* Two callers; an enumerator of two modules, and one of a session that it  *)
(* may be chained to.                                                       *)
EXTENDS GckEnumerator

CONSTANTS e1, e2, s1, s2, s3, o1, o2, o3, h1, h2, h3, c1, c2

EnumContents == (s1 :> <<o1, o2>>) @@ (s2 :> <<o3>>) @@ (s3 :> <<o3>>)
EnumModules == (e1 :> <<<<s1>>, <<s2>>>>) @@ (e2 :> <<>>)
EnumSlots == (e1 :> <<>>) @@ (e2 :> <<>>)
EnumGiven == (e1 :> None) @@ (e2 :> h1)
EnumGivenSlot == (e1 :> None) @@ (e2 :> s3)
EnumWant == (c1 :> {1}) @@ (c2 :> {9})
EnumChainable == {<<e1, e2>>}
=============================================================================
