------------------------------- MODULE MCServer -------------------------------
(***************************************************************************)
(* Description files and requests for AtpServer.                           *)
(***************************************************************************)
EXTENDS AtpServer

CONSTANTS default, dom1, a, b, c

Param(n, t, v, vs) ==
  [paramName |-> n, paramType |-> t, defaultVal |-> v, valueArray |-> vs]
Domain(n, ps) == [NewDomain(n) EXCEPT !.paramsArray = ps]

RangeA == Param(a, 1, 5, <<1, 9, 2>>)
EnumB == Param(b, 2, 4, <<4, 6>>)
EnumC == Param(c, 2, 3, <<>>)

\* Two exports of the application, with another number of parameters in dom1.
First == <<Domain(default, <<RangeA>>), Domain(dom1, <<EnumB>>)>>
Second == <<Domain(default, <<>>), Domain(dom1, <<EnumC, EnumB, RangeA>>)>>

\* A step of 0, which atp_param_add_values lets pass, and a range whose values
\* were never added.
ZeroStep == <<Domain(default, <<Param(a, 1, 5, <<1, 9, 0>>)>>)>>
NoValues == <<Domain(default, <<EnumB, Param(a, 1, 5, <<>>)>>)>>

\* A parameter of a type that is neither.
OtherType == <<Domain(default, <<RangeA, Param(b, 3, 4, <<4, 6, 2>>)>>)>>

MCNames == {default, dom1, a, b, c}
AllFiles == {NoFile, First, Second, ZeroStep, NoValues, OtherType}
GoodFiles == {First, Second}
ChangingFiles == {NoFile, First}
MCGarbage == {0, 3}

Req(n, d) == [name |-> n, domain |-> d]
Specs == Req("getatpspecs", NULL)
TestRequests == {Specs, Req("getvalidparams", dom1)}
AllRequests == TestRequests \cup {Req("getvalidparams", NULL), Req("unknown", NULL)}
=============================================================================
