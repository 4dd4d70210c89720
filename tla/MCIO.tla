-------------------------------- MODULE MCIO --------------------------------
(***************************************************************************)
(* Types and values that take every branch of the I/O classes, two of each *)
(* kind.                                                                   *)
(***************************************************************************)
EXTENDS ValueExchange

One(t, v) == [t |-> t, vs |-> <<v>>]
Two(t, v, w) == [t |-> t, vs |-> <<v, w>>]
I(n, lo) == [i \in 1..n |-> IF i = n THEN lo ELSE i - 1]

Char == Kind("char")
Bool == Kind("bool")
String == Kind("string")
Bytes(n, b) == [i \in 1..8 |-> IF i <= n THEN b[(i % Len(b)) + 1] ELSE 0]
Encoded == Kind("encoded")
Signed == Kind("signed")
Pair == Of("pair", <<Uint(2), Float(4)>>)
Address(n) == [i \in 1..16 |-> IF i <= n THEN 32 + i ELSE 0]
MCCases ==
    {Two(Char, 65, 0), Two(Bool, TRUE, FALSE), Two(Uint(2), I(2, 7), I(2, 200)),
     Two(Uint(4), I(4, 7), I(4, 0)), Two(Float(4), I(4, 63), I(4, 1)),
     Two(String, <<65, 66>>, <<>>), Two(Kind("view"), <<65>>, <<66, 67>>),
     Two(Encoded, Bytes(1, <<200>>), Bytes(8, <<255>>)),
     Two(Encoded, Bytes(2, <<1, 2>>), Bytes(5, <<1, 2, 3>>)),
     Two(Signed, Bytes(8, <<255>>), [i \in 1..8 |-> IF i = 8 THEN 128 ELSE 0]),
     Two(Signed, Bytes(1, <<128>>), [i \in 1..8 |-> IF i < 8 THEN 255 ELSE 127]),
     Two(Signed, [i \in 1..8 |-> IF i = 2 THEN 255 ELSE IF i = 1 THEN 0 ELSE 255],
         [i \in 1..8 |-> IF i = 1 THEN 1 ELSE IF i < 4 THEN 0 ELSE 255]),
     Two(Of("enum", Uint(2)), I(2, 1), I(2, 2)),
     Two(Pair, <<I(2, 1), I(4, 2)>>, <<I(2, 3), I(4, 4)>>),
     One(Many("array", Uint(4), 2), <<I(4, 1), I(4, 2)>>),
     One(Of("tuple", <<Char, String, Uint(8)>>), <<65, <<66>>, I(8, 9)>>),
     One(Many("bounded", Uint(2), 2), <<I(2, 1), I(2, 2)>>),
     One(Many("bounded", Float(4), 2), <<I(4, 1), I(4, 2)>>),
     Two(Of("vector", Uint(2)), <<I(2, 1), I(2, 2)>>, <<>>),
     One(Of("vector", Char), <<65, 66, 67>>),
     Two(Of("vector", Bool), <<TRUE, FALSE>>, <<TRUE>>),
     One(Of("vector", Float(4)), <<I(4, 1), I(4, 2)>>),
     Two(Of("sequence", String), <<<<65>>, <<66, 67>>>>, <<<<>>>>),
     Two(Of("set", Uint(2)), {I(2, 1), I(2, 2)}, {I(2, 3)}),
     Two(Of("map", Of("pair", <<Char, String>>)), {<<65, <<66>>>>, <<67, <<>>>>}, {}),
     One(Of("hashmap", Of("pair", <<Char, Uint(8)>>)), {<<65, I(8, 1)>>, <<66, I(8, 2)>>}),
     One(Of("hashset", Char), {65, 66}),
     Two(Of("variant", <<Kind("nothing"), Uint(4), String>>), <<1, I(4, 5)>>, <<2, <<65>>>>),
     Two(Of("variant", <<Kind("nothing"), Char>>), <<0, <<>>>>, <<1, 66>>),
     Two(Of("pointer", Uint(8)), <<I(8, 1)>>, <<>>),
     Two(Of("optional", String), <<<<65>>>>, <<>>),
     Two(Of("atomic", Uint(4)), I(4, 1), I(4, 2)),
     One(Union(4), I(4, 1)),
     Two(Of("fixed", <<Uint(2), Char>>), <<I(2, 1), 65>>, <<I(2, 2), 66>>),
     Two(Of("gathered", <<Uint(2), Bool, Many("array", Uint(4), 1)>>), <<I(2, 1), TRUE, <<I(4, 9)>>>>,
         <<I(2, 2), FALSE, <<I(4, 8)>>>>),
     One(Of("gathered", <<Many("array", Float(4), 2), Char>>), <<<<I(4, 1), I(4, 2)>>, 65>>),
     One(Of("class", <<Uint(8), String>>), <<I(8, 1), <<65>>>>),
     Two(Own("TimeValue"), <<I(4, 1), I(4, 2)>>, <<I(4, 3), I(4, 0)>>),
     One(Own("TimeValue64"), <<I(8, 1), I(4, 2)>>),
     One(Own("TimeInterval"), <<<<I(4, 1), I(4, 2)>>, <<I(4, 3), I(4, 4)>>>>),
     One(Own("TimeInterval64"), <<<<I(8, 1), I(4, 2)>>, <<I(8, 3), I(4, 4)>>>>),
     Two(Own("Ipv4Address"), <<10, 0, 0, 1>>, <<10, 0, 0, 2>>),
     One(Own("Ipv6Address"), I(16, 1)),
     Two(Own("Ipv4Prefix"), <<10, 1, 0, 0, 16>>, <<0, 0, 0, 0, 0>>),
     Two(Own("Ipv6Prefix"), <<20, Address(3)>>, <<128, Address(16)>>),
     Two(Own("Ipv6Prefix"), <<0, Address(0)>>, <<8, Address(1)>>),
     Two(Own("MacAddress"), I(6, 1), I(6, 9)),
     One(Own("MplsLabel"), <<0, 1, 49, 64>>),
     Two(Own("MplsLabelStack"), <<<<0, 1, 48, 64>>, <<0, 2, 17, 64>>>>, <<<<0, 1, 1, 255>>>>),
     Two(Own("SizedLength"), Bytes(1, <<200>>), Bytes(8, <<255, 1>>)),
     Two(Own("SizedLength"), Bytes(2, <<1, 2>>), Bytes(0, <<0>>))}
MCRooms == {Unlimited} \cup (0..14)
=============================================================================
