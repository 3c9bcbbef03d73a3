------------------------------ MODULE MCJsonDocs ------------------------------
EXTENDS JsonDocs
Num(v)    == [type |-> "Number", val |-> <<v>>, kids |-> <<>>]
Nil       == [type |-> "NULL", val |-> <<>>, kids |-> <<>>]
Obj(kids) == [type |-> "Object", val |-> <<>>, kids |-> kids]
Arr(vs)   == [type |-> "Array", val |-> <<>>, kids |-> [n \in DOMAIN vs |-> <<NoKey, vs[n]>>]]

BA   == Obj(<< <<<<"b">>, Num("1")>>, <<<<"a">>, Num("2")>> >>)
AC   == Obj(<< <<<<"a">>, Arr(<<Num("1"), Num("2"), Num("2")>>)>>, <<<<"c">>, Nil>> >>)
AB   == Obj(<< <<<<"a">>, Arr(<<Num("2")>>)>>, <<<<"B">>, Num("1")>> >>)
Deep == Obj(<< <<<<"a">>, Obj(<< <<<<"a", "/">>, Num("1")>>, <<<<"~">>, Num("1")>> >>)>> >>)

T1   == Obj(<< <<<<"~">>, Num("1")>>, <<<<"a">>, Num("1")>> >>)
T2   == Obj(<< <<<<"~">>, Num("2")>>, <<<<"a", "~">>, Num("1")>> >>)

MCPairs == {<<BA, AB>>, <<AC, AB>>, <<Deep, BA>>, <<T1, T2>>,
            <<Arr(<<Num("1"), Num("2")>>), Arr(<<BA>>)>>, <<Arr(<<AB>>), Arr(<<BA>>)>>}
MCStrings == {<<>>, <<"a">>, <<"a", ":">>, <<"a", "|", "b">>, <<"a", "b", "c", "a">>}
MCRequests == {<<<<"A">>, s, p>> : s, p \in MCStrings}
MCSizes == {9, 16}
MCChar == {"m", "s", "p", "a", "b", "c", "A", "1", "2", ":", "|"}
MCOutSizes == <<2, 3, 4>>
MCFail  == 0 .. 3
MCKeys  == {<<"a">>, <<"A">>, <<"b">>}
MCPaths == {<<>>, <<"/", "a">>, <<"/", "0">>, <<"/", "2">>, <<"/", "-">>, <<"/", "a", "/", "b">>, NoPointer}
=============================================================================
