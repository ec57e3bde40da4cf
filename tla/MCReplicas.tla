----------------------------- MODULE MCReplicas -----------------------------
(***************************************************************************)
(* Instance for TLC.  The documents hold every kind of value at some depth *)
(* of two, lists with a value that is there twice and with a null, and a   *)
(* text of three characters.                                               *)
(***************************************************************************)
EXTENDS Replicas

MCDocs ==
  { Arr(<<Num(1), Num(2), Num(1)>>),
    Arr(<<Num(1), Num(2), Num(5)>>),
    Arr(<<Num(2), Obj("a" :> Num(1)), Arr(<<Num(1), Num(2)>>)>>),
    Obj(<<>>),
    Obj("a" :> Num(1)),
    Obj("a" :> Num(1) @@ "b" :> Str(<<"h", "i", "t">>)),
    Obj("a" :> Arr(<<Num(1), Num(2)>>)),
    Obj("a" :> Obj("b" :> Num(1))),
    Obj("a" :> Null @@ "b" :> Arr(<<Null, Num(1)>>)) }

MCFresh == {Num(3), Null, Arr(<<Num(2)>>)}
MCStrings == {<<"q">>, <<"q", "q">>}
MCKeys == {"a", "b"}
=============================================================================
