----------------------------- MODULE MCDecoding -----------------------------
(***************************************************************************)
(* Decoding for TLC: what the API sends.                                   *)
(***************************************************************************)
EXTENDS Decoding

\* What the API sends: the keys of every class of the family and one nobody declares; all of
\* them, all but one, one, or only those the class reads.
KeySets(class) ==
  LET keys == FamilyKeys(class) \cup {"newField"}
  IN {keys, OwnKeys(class)} \cup {keys \ {k} : k \in keys} \cup {{k} : k \in keys}

\* The tags a record of the class comes with, one of them a type nobody knows.
Tags(class) ==
  CASE class \in Instruments ->
         {[instrumentType |-> t] : t \in {t \in InstrumentType : TagByType[t] = class} \cup {"NEW"}}
    [] class = "equity_position" -> {[type |-> "depoLimit", instrumentType |-> "ETF"]}
    [] class = "bond_position" ->
         {[type |-> "depoLimit", instrumentType |-> t] : t \in {"BONDS", "NOTES"}}
    [] class \in Positions \ {"equity_position", "bond_position"} ->
         {IF "instrumentType" \in DOMAIN Classes[class].flat
          THEN [type |-> t, instrumentType |-> "FUTURES"] ELSE [type |-> t] :
            t \in {t \in PositionType \cap DOMAIN PositionTagByType :
                    PositionTagByType[t] = class} \cup {"newLimit"}}
    [] class \in Limits \cup Margins -> {[t \in {} |-> t]}

Record(keys, tags) ==
  {[at |-> <<k>>, is |-> IF k \in DOMAIN tags THEN tags[k] ELSE k] : k \in keys \cup DOMAIN tags}

\* An option comes with its call or put as a sub-type, a label, both, or neither.
Labelled(record) ==
  {{IF e.at \in {<<"subType">>, <<"type">>} THEN [e EXCEPT !.is = l[e.at[1]]] ELSE e : e \in record} :
     l \in {[subType |-> "AST_OPT_CALL", type |-> "put"], [subType |-> "subType", type |-> "put"],
            [subType |-> "AST_OPT_PUT", type |-> "type"], [subType |-> "subType", type |-> "type"]}}

RecordsOf(class) ==
  UNION {IF class = "option" THEN Labelled(Record(keys, tags)) ELSE {Record(keys, tags)} :
           keys \in KeySets(class), tags \in Tags(class)}

KindOf(class) ==
  IF class \in Instruments THEN "instrument" ELSE IF class \in Positions THEN "position" ELSE class

Day == -2 .. 2
Stamps == -51 .. 51

Enumerated(what, enums, texts(_)) ==
  UNION {{[kind |-> what, value |-> [enum |-> enum, scalar |-> s]] : s \in Scalars(texts(enum))} :
           enum \in enums}

TheSent ==
  UNION {{[kind |-> KindOf(class), value |-> r] : r \in RecordsOf(class)} : class \in DOMAIN Classes}
    \cup [kind : {"moex_date", "calendar_date"},
          value : [form : {"stamp"}, at : Stamps] \cup [form : {"date", "object"}, at : Day]
                    \cup {[form |-> "empty", at |-> 0]}]
    \cup Enumerated("str_enum", CodedStrEnums, LAMBDA enum : {enum[n] : n \in DOMAIN enum} \cup {"77"})
    \cup Enumerated("int_enum", CodedIntEnums,
                    LAMBDA enum : {ToString(enum[n]) : n \in DOMAIN enum} \cup {"77"})

TheLines == SeqOf([term : {"T0", "T365", "T7", None}, class : {"money_position", "bond_position"}], 3)
=============================================================================
