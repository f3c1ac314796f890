----------------------------- MODULE MCServices -----------------------------
(***************************************************************************)
(* Services for TLC: the listings and the calls.                           *)
(***************************************************************************)
EXTENDS Services

Instrument(id, ticker, codes, type) == [id |-> id, ticker |-> ticker, codes |-> codes, type |-> type]

\* Two records of one ticker, one without a primary board; B listed once; C on no board.
Pool == {Instrument(1, "A", <<"X", "Y">>, "BONDS"), Instrument(2, "A", <<None, "Z">>, "BONDS"),
         Instrument(3, "B", <<"X">>, "BONDS"), Instrument(4, "C", << >>, "BONDS")}

TheNew == <<Instrument(5, "B", <<"Y", "X">>, "STOCK"), Instrument(8, "A", <<"X">>, "BONDS")>>

Typed(type) == Instrument(6, "D", <<"X">>, type)

TheListings ==
  {l \in SeqOf(Pool, 4) : Cardinality(ToSet(l)) = Len(l)}
    \cup {<<Typed(type), [Typed(type) EXCEPT !.id = 7]>> : type \in Wire!InstrumentType}

TheCalls ==
  [kind : {"history"}, tickers : {{}, {"A", "B"}}, newest_first : BOOLEAN, size : {0, 1, 2, 3}]
    \cup [kind : {"operations"}, tickers : {{}, {"A", "B"}}, newest_first : {FALSE}, size : {1, 2, 3}]
    \cup [kind : {"by_type"}, type : Wire!InstrumentType \cup {"NEW"}, size : {1, 2}]
    \cup [kind : {"lookup"},
          keys : {{}, {<<"A", "Y">>, <<"A", "Q">>}, {<<"A", "Q">>, <<"B", "Q">>, <<"C", "X">>},
                  {<<"A", "Z">>, <<"B", "X">>, <<"B", "Q">>}, {<<"B", "Y">>, <<"C", "X">>}}]
    \cup [kind : {"order"}, quantity : {0, 1}, visible : {{}, {0}, {1}}]
=============================================================================
