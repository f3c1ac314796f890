------------------------------ MODULE Records ------------------------------
(***************************************************************************)
(* The wire records of models/ and how they become model objects.          *)
(*                                                                         *)
(* The API sends flat objects; a model groups related fields in a nested   *)
(* one, spells them its own way, and picks the class of an instrument or a *)
(* position from a tag.  The grouping runs before validation, on whatever  *)
(* is validated: a payload of the API, or an object dumped by the model    *)
(* itself under its field names or its aliases, which must come back as    *)
(* the same object.                                                        *)
(*                                                                         *)
(* An object is a set of entries [at, is]: the place, <<key>> for a flat   *)
(* value and <<key, field>> for one inside a nested object, and the value. *)
(* A value is the wire key it was sent under, so that a value that is lost *)
(* or lands in the wrong field is seen; the value of a tag is the tag.     *)
(* Keys with an empty or no value are absent.                              *)
(***************************************************************************)
EXTENDS Enums, Integers, Sequences, FiniteSets, SequencesExt, TLC

----------------------------------------------------------------------------
(* _wire.py                                                                *)

Has(p, key) == \E e \in p : e.at = <<key>>
Value(p, keys) == {e.is : e \in {e \in p : Len(e.at) = 1 /\ e.at[1] \in keys}}
Without(p, keys) == {e \in p : Len(e.at) = 2 \/ e.at[1] \notin keys}
IsNested(p, target) == \E e \in p : Len(e.at) = 2 /\ e.at[1] = target

\* Mutant of Nest: a group that is there already is taken for a flat key.
NestAgain(p, target, table) ==
  {IF e.at[1] \in DOMAIN table
   THEN [e EXCEPT !.at = <<target, table[e.at[1]]>>] ELSE e : e \in p}

\* Moves the flat keys of the table into the object under target, unless one is there.
Nest(p, target, table) ==
  IF IsNested(p, target)
  THEN p
  ELSE {IF e.at[1] \in DOMAIN table /\ Len(e.at) = 1
        THEN [e EXCEPT !.at = <<target, table[e.at[1]]>>] ELSE e : e \in p}

----------------------------------------------------------------------------
(* Nested objects: their fields, and the wire keys moved into them.        *)

ListingFields == {"primary_board", "secondary_boards", "boards", "settle_code", "settlement_date"}
LISTING == [primaryBoard |-> "primary_board", secondaryBoards |-> "secondary_boards",
            boards |-> "boards", settleCode |-> "settle_code", settlementDate |-> "settlement_date"]

TradingFields == {"lot_size", "minimum_step", "step_price", "step_price_currency", "scale",
                  "trading_currency", "settlement_currency"}
TRADING == [lotSize |-> "lot_size", minimumStep |-> "minimum_step", stepPrice |-> "step_price",
            currencyStepPrice |-> "step_price_currency", scale |-> "scale",
            tradingCurrency |-> "trading_currency", settlementCurrency |-> "settlement_currency"]

EligibilityFields == {"is_blocked", "margin_allowed", "short_allowed", "qualified_only",
                      "available_for_unqualified", "qualified_test_id",
                      "qualified_test_id_tomorrow", "complex_product"}
ELIGIBILITY == [isBlocked |-> "is_blocked", isCanMargin |-> "margin_allowed",
                isCanShort |-> "short_allowed", isQualifiedOnly |-> "qualified_only",
                availableForUnqualified |-> "available_for_unqualified",
                qualifiedTestId |-> "qualified_test_id",
                qualifiedTestIdTm |-> "qualified_test_id_tomorrow",
                complexProduct |-> "complex_product"]

PriceChangeFields == {"month", "half_year", "year", "year_to_date"}
PRICE_CHANGE == [priceChangeMonth |-> "month", priceChangeHalfYear |-> "half_year",
                 priceChangeYear |-> "year", priceChangeEarlyYear |-> "year_to_date"]

IssuerFields == {"name", "country", "country_code", "sector", "sector_id"}
ISSUER == [issuerName |-> "name", businessCountry |-> "country",
           businessCountryCode |-> "country_code", businessSector |-> "sector",
           businessSectorId |-> "sector_id"]

AnalyticsFields == {"market_cap", "pe_norm", "price_tangible", "eps_growth_rate",
                    "dividend_yield", "predicted_dps", "target_price",
                    "percent_target_current", "bcs_score", "bcs_score_color"}
ANALYTICS == [mktcap |-> "market_cap", peNorm |-> "pe_norm", priceTangible |-> "price_tangible",
              epsGrowthRate |-> "eps_growth_rate", dividendYield |-> "dividend_yield",
              predictedDps |-> "predicted_dps", targetPrice |-> "target_price",
              percentTargetCurrent |-> "percent_target_current", bcsScore |-> "bcs_score",
              bcsScoreColor |-> "bcs_score_color"]

BoardFields == {"class_code", "exchange"}
MultiCurrencyFields == {"value", "rub", "usd", "eur"}
ProfitLossFields == {"amount", "percent"}
KeyFields == {"ticker", "class_code"}

BALANCE_VALUE == [balanceValue |-> "value", balanceValueRub |-> "rub",
                  balanceValueUsd |-> "usd", balanceValueEur |-> "eur"]
CURRENT_VALUE == [currentValue |-> "value", currentValueRub |-> "rub",
                  currentValueUsd |-> "usd", currentValueEur |-> "eur"]
DAILY_PL == [dailyPL |-> "amount", dailyPercentPL |-> "percent"]
UNREALIZED_PL == [unrealizedPL |-> "amount", unrealizedPercentPL |-> "percent"]
POSITION_BOARD == [board |-> "class_code", exchange |-> "exchange"]
LIMIT_BOARD == [classCode |-> "class_code", exchange |-> "exchange"]

----------------------------------------------------------------------------
(* Classes.  flat maps the alias of a field to its name; nested maps the   *)
(* alias of a nested field to its name and the fields it has.              *)

Class(flat, nested) == [flat |-> flat, nested |-> nested]
Sub(name, fields) == [name |-> name, fields |-> fields]
Extended(base, flat, nested) == Class(flat @@ base.flat, nested @@ base.nested)
NoFields == [x \in {} |-> x]

BaseInstrument ==
  Class([ticker |-> "ticker", instrumentType |-> "instrument_type", subType |-> "sub_type",
         type |-> "type_name", displayName |-> "display_name", shortName |-> "short_name",
         subTitle |-> "sub_title", isBcsProduct |-> "is_bcs_product"],
        [listing |-> Sub("listing", ListingFields), trading |-> Sub("trading", TradingFields),
         eligibility |-> Sub("eligibility", EligibilityFields),
         priceChange |-> Sub("price_change", PriceChangeFields)])

Security ==
  Extended(BaseInstrument,
    [isin |-> "isin", nrdCode |-> "nrd_code", registrationCode |-> "registration_code",
     faceValue |-> "face_value", currencyNominal |-> "nominal_currency",
     emissionDate |-> "emission_date"],
    [issuer |-> Sub("issuer", IssuerFields), analytics |-> Sub("analytics", AnalyticsFields)])

Bond ==
  Extended(Security,
    [couponRate |-> "coupon_rate", couponTypeName |-> "coupon_type_name",
     couponsPerYear |-> "coupons_per_year", nextCoupon |-> "next_coupon",
     accruedInt |-> "accrued_interest", amortisedMty |-> "amortised",
     maturityDate |-> "maturity_date", creditRating |-> "credit_rating",
     liquidityRating |-> "liquidity_rating", isReplacementBond |-> "is_replacement_bond"],
    NoFields)

Derivative ==
  Extended(BaseInstrument,
    [baseAsset |-> "base_asset_name", baseAssetFuture |-> "base_asset_group",
     maturityDate |-> "expiry"],
    [underlying |-> Sub("underlying", KeyFields)])

Option == Extended(Derivative, [strike |-> "strike", optionType |-> "option_type"], NoFields)

CurrencyPair == Extended(BaseInstrument, [firstCurrCode |-> "quoted_currency"], NoFields)

UnknownInstrument ==
  Extended(BaseInstrument,
    [isin |-> "isin", nrdCode |-> "nrd_code", registrationCode |-> "registration_code",
     faceValue |-> "face_value", currencyNominal |-> "nominal_currency",
     emissionDate |-> "emission_date", couponRate |-> "coupon_rate",
     couponTypeName |-> "coupon_type_name", couponsPerYear |-> "coupons_per_year",
     nextCoupon |-> "next_coupon", accruedInt |-> "accrued_interest",
     amortisedMty |-> "amortised", maturityDate |-> "maturity_date",
     creditRating |-> "credit_rating", liquidityRating |-> "liquidity_rating",
     isReplacementBond |-> "is_replacement_bond", baseAsset |-> "base_asset_name",
     baseAssetFuture |-> "base_asset_group", strike |-> "strike",
     firstCurrCode |-> "quoted_currency"],
    [issuer |-> Sub("issuer", IssuerFields), analytics |-> Sub("analytics", AnalyticsFields),
     underlying |-> Sub("underlying", KeyFields)])

BasePosition ==
  Class([type |-> "type", account |-> "account", term |-> "term", upperType |-> "upper_type",
         displayName |-> "display_name", quantity |-> "quantity", locked |-> "locked",
         portfolioShare |-> "portfolio_share", isBlocked |-> "is_blocked",
         isBlockedTradeAccount |-> "is_blocked_trade_account"],
        [balanceValue |-> Sub("balance_value", MultiCurrencyFields),
         currentValue |-> Sub("current_value", MultiCurrencyFields),
         dailyPL |-> Sub("daily_pl", ProfitLossFields),
         unrealizedPL |-> Sub("unrealized_pl", ProfitLossFields)])

CashPosition ==
  Extended(BasePosition,
    [currency |-> "currency", exchange |-> "exchange", currentPrice |-> "current_rate",
     balancePrice |-> "balance_rate", lockedForFutures |-> "locked_for_futures"],
    NoFields)

InstrumentPosition ==
  Extended(BasePosition,
    [ticker |-> "ticker", instrumentType |-> "instrument_type", currency |-> "currency",
     currentPrice |-> "current_price", balancePrice |-> "balance_price", scale |-> "scale",
     minimumStep |-> "minimum_step", priceUnit |-> "price_unit"],
    [board |-> Sub("board", BoardFields)])

SecurityPosition == Extended(InstrumentPosition, [faceValue |-> "face_value"], NoFields)
BondPosition == Extended(SecurityPosition, [accruedIncome |-> "accrued_income"], NoFields)
OtcPosition == Extended(InstrumentPosition, [faceValue |-> "face_value"], NoFields)

FuturesPosition ==
  Extended(InstrumentPosition,
    [ratioQuantity |-> "multiplier", expireDate |-> "expiry", lockedForFutures |-> "collateral",
     baseAssetTicker |-> "base_asset_ticker"],
    NoFields)

\* Mutant of UnknownPosition: the fields of futures are forgotten.
UnknownWithoutFutures ==
  Extended(InstrumentPosition,
    [faceValue |-> "face_value", accruedIncome |-> "accrued_income"], NoFields)

UnknownPosition ==
  Extended(BasePosition,
    [ticker |-> "ticker", board |-> "board", exchange |-> "exchange",
     instrumentType |-> "instrument_type", currency |-> "currency",
     currentPrice |-> "current_price", balancePrice |-> "balance_price", scale |-> "scale",
     minimumStep |-> "minimum_step", priceUnit |-> "price_unit",
     ratioQuantity |-> "ratio_quantity", faceValue |-> "face_value",
     accruedIncome |-> "accrued_income", baseAssetTicker |-> "base_asset_ticker",
     expireDate |-> "expire_date", lockedForFutures |-> "locked_for_futures"],
    NoFields)

DepoLimit ==
  Class([ticker |-> "ticker", instrumentType |-> "instrument_type",
         averagePrice |-> "average_price", quantity |-> "quantity",
         quantityBatch |-> "quantity_batch", lockedBuyQuantity |-> "locked_buy_quantity",
         lockedBuyValue |-> "locked_buy_value", lockedSellQuantity |-> "locked_sell_quantity",
         lockedSellValue |-> "locked_sell_value", loadDate |-> "load_date"],
        [board |-> Sub("board", BoardFields)])

FutureHolding ==
  Class([ticker |-> "ticker", instrumentType |-> "instrument_type",
         averagePrice |-> "average_price", totalNet |-> "total_net",
         positionValue |-> "position_value", varMargin |-> "var_margin",
         realVarMargin |-> "real_var_margin", totalVarMargin |-> "total_var_margin",
         cbplPlanned |-> "cbpl_planned", tradeDate |-> "trade_date",
         executionDate |-> "execution_date"],
        [board |-> Sub("board", BoardFields)])

MarginSecurity ==
  Class([ticker |-> "ticker", displayName |-> "display_name", quantity |-> "quantity",
         currentValue |-> "current_value", currency |-> "currency", discount |-> "discount"],
        [board |-> Sub("board", BoardFields)])

MarginFuturesPosition ==
  Class([ticker |-> "ticker", displayName |-> "display_name", currentValue |-> "current_value",
         balanceValue |-> "balance_value", futuresCollateral |-> "futures_collateral",
         discount |-> "discount"],
        [board |-> Sub("board", BoardFields)])

\* Every concrete class: the tagged classes of the two unions, and the records of
\* limits and margin that nest a board.
Classes ==
  [equity |-> Security, bond |-> Bond, future |-> Derivative, option |-> Option,
   currency_pair |-> CurrencyPair, index |-> BaseInstrument, commodity |-> BaseInstrument,
   unknown |-> UnknownInstrument,
   money_position |-> CashPosition, futures_money_position |-> CashPosition,
   equity_position |-> SecurityPosition, bond_position |-> BondPosition,
   futures_position |-> FuturesPosition, otc_position |-> OtcPosition,
   unknown_position |-> UnknownPosition,
   depo_limit |-> DepoLimit, future_holding |-> FutureHolding,
   margin_security |-> MarginSecurity, margin_futures |-> MarginFuturesPosition]

Instruments == {"equity", "bond", "future", "option", "currency_pair", "index", "commodity", "unknown"}
Positions == {"money_position", "futures_money_position", "equity_position", "bond_position",
              "futures_position", "otc_position", "unknown_position"}
Limits == {"depo_limit", "future_holding"}
Margins == {"margin_security", "margin_futures"}

----------------------------------------------------------------------------
(* The class of a record, from its tag.                                    *)

TagByType ==
  [type \in InstrumentType |->
     CASE type \in {"STOCK", "FOREIGN_STOCK", "DEPOSITARY_RECEIPTS", "ETF", "MUTUAL_FUNDS"} -> "equity"
       [] type \in {"BONDS", "EURO_BONDS", "NOTES"} -> "bond"
       [] type = "FUTURES" -> "future"
       [] type = "OPTIONS" -> "option"
       [] type = "CURRENCY" -> "currency_pair"
       [] type = "INDICES" -> "index"
       [] type = "GOODS" -> "commodity"]

InstrumentTag(p) ==
  LET kind == Value(p, {"instrumentType", "instrument_type"}) \cap InstrumentType
  IN IF kind = {} THEN "unknown" ELSE TagByType[CHOOSE k \in kind : TRUE]

PositionTagByType == [moneyLimit |-> "money_position", futuresHolding |-> "futures_position",
                      futuresLimit |-> "futures_money_position", otcLimit |-> "otc_position"]

PositionTag(p) ==
  LET kind == Value(p, {"type"})
  IN IF "depoLimit" \in kind
     THEN IF \E type \in Value(p, {"instrumentType", "instrument_type"}) : IsDebt(type)
          THEN "bond_position" ELSE "equity_position"
     ELSE IF kind \cap DOMAIN PositionTagByType = {} THEN "unknown_position"
     ELSE PositionTagByType[CHOOSE k \in kind : TRUE]

----------------------------------------------------------------------------
(* The validators that run before a class is validated.                    *)

NestGroups(p) ==
  Nest(Nest(Nest(Nest(p, "listing", LISTING), "trading", TRADING),
            "eligibility", ELIGIBILITY), "priceChange", PRICE_CHANGE)

NestSecurityGroups(p) == Nest(Nest(p, "issuer", ISSUER), "analytics", ANALYTICS)

\* The key of the underlying needs its ticker and its class code.
NestUnderlying(p) ==
  LET table == [baseAssetSecuritySecCode |-> "ticker", baseAssetSecurityClassCode |-> "class_code"]
  IN IF ~IsNested(p, "underlying") /\ \A key \in DOMAIN table : Has(p, key)
     THEN Nest(p, "underlying", table)
     ELSE Without(p, DOMAIN table)

OptionType(values) ==
  IF values \cap {"AST_OPT_CALL", "call"} # {} THEN {"call"}
  ELSE IF values \cap {"AST_OPT_PUT", "put"} # {} THEN {"put"} ELSE {}

\* Unless it is given, call or put is read from the sub-type, or else from the label.
DeriveOptionType(p) ==
  LET subType == OptionType(Value(p, {"subType", "sub_type"}))
      derived == IF subType # {} THEN subType ELSE OptionType(Value(p, {"type", "type_name"}))
  IN IF Has(p, "optionType") \/ Has(p, "option_type")
     THEN p ELSE p \cup {[at |-> <<"optionType">>, is |-> type] : type \in derived}

NestValuation(p) ==
  Nest(Nest(Nest(Nest(p, "balanceValue", BALANCE_VALUE), "currentValue", CURRENT_VALUE),
            "dailyPL", DAILY_PL), "unrealizedPL", UNREALIZED_PL)

\* The exchange alone is not a board.
NestPositionBoard(p) ==
  IF IsNested(p, "board") THEN p
  ELSE IF ~Has(p, "board") THEN Without(p, {"exchange"})
  ELSE Nest(p, "board", POSITION_BOARD)

NestLimitBoard(p) == Nest(p, "board", LIMIT_BOARD)
NestMarginBoard(p) == Nest(p, "board", [board |-> "class_code"])

Before(class, p) ==
  CASE class \in {"equity", "bond"} -> NestGroups(NestSecurityGroups(p))
    [] class = "future" -> NestGroups(NestUnderlying(p))
    [] class = "option" -> NestGroups(NestUnderlying(DeriveOptionType(p)))
    [] class = "unknown" -> NestGroups(NestUnderlying(NestSecurityGroups(p)))
    [] class \in {"currency_pair", "index", "commodity"} -> NestGroups(p)
    [] class \in {"money_position", "futures_money_position", "unknown_position"} -> NestValuation(p)
    [] class \in Positions \ {"money_position", "futures_money_position", "unknown_position"} ->
         NestValuation(NestPositionBoard(p))
    [] class \in Limits -> NestLimitBoard(p)
    [] class \in Margins -> NestMarginBoard(p)

----------------------------------------------------------------------------
(* base.py: a field is read under its alias or its name, anything else is  *)
(* ignored; a dump writes either spelling.                                 *)

NestedValue(p, targets, field) ==
  {e.is : e \in {e \in p : Len(e.at) = 2 /\ e.at[1] \in targets /\ e.at[2] = field}}

Validate(class, payload) ==
  LET c == Classes[class]
      p == Before(class, payload)
      flat(k) == {[at |-> <<c.flat[k]>>, is |-> v] : v \in Value(p, {k, c.flat[k]})}
      nested(k, f) == {[at |-> <<c.nested[k].name, f>>, is |-> v] :
                         v \in NestedValue(p, {k, c.nested[k].name}, f)}
  IN UNION {flat(k) : k \in DOMAIN c.flat}
       \cup UNION {UNION {nested(k, f) : f \in c.nested[k].fields} : k \in DOMAIN c.nested}

Alias(class, field) ==
  LET c == Classes[class]
  IN CHOOSE k \in DOMAIN c.flat \cup DOMAIN c.nested :
       \/ k \in DOMAIN c.flat /\ c.flat[k] = field
       \/ k \in DOMAIN c.nested /\ c.nested[k].name = field

Dump(class, object, by_alias) ==
  IF by_alias
  THEN {[e EXCEPT !.at = <<Alias(class, @[1])>> \o Tail(@)] : e \in object}
  ELSE object

----------------------------------------------------------------------------
(* Dates.  A value has a form: "date" for a plain date in either spelling, *)
(* "stamp" for an instant, in hours since the epoch whatever zone it was   *)
(* sent in, "object" for a date object, "empty" for the empty string.      *)

MoscowTime == 3

CalendarDate(value, zone) ==
  CASE value.form = "stamp" -> [form |-> "object", at |-> (value.at + zone) \div 24]
    [] value.form = "date" -> [form |-> "object", at |-> (24 * value.at + zone) \div 24]
    [] value.form \in {"object", "empty"} -> value

EmptyToNone(value) == IF value.form = "empty" THEN [form |-> "none", at |-> 0] ELSE value

EpochDateToNone(value) ==
  IF value.form = "object" /\ value.at = 0 THEN [form |-> "none", at |-> 0] ELSE value

OptionalCalendarDate(value) == EpochDateToNone(EmptyToNone(CalendarDate(value, 0)))

\* Mutant of OptionalMoexDate: the day is that of UTC.
MoexDateInUtc(value) == EpochDateToNone(EmptyToNone(CalendarDate(value, 0)))

OptionalMoexDate(value) == EpochDateToNone(EmptyToNone(CalendarDate(value, MoscowTime)))

----------------------------------------------------------------------------
(* A portfolio is the sequence of its lines [term, class].                 *)

None == "None"

PositionsOf(lines, term) == SelectSeq(lines, LAMBDA line : line.term = term)

Terms(lines) ==
  FoldLeft(LAMBDA seen, line : IF line.term = None \/ line.term \in ToSet(seen)
                               THEN seen ELSE Append(seen, line.term),
           << >>, lines)

ByTerm(lines) ==
  FoldLeft(LAMBDA grouped, line :
             IF line.term = None THEN grouped
             ELSE IF line.term \in DOMAIN grouped
                  THEN [grouped EXCEPT ![line.term] = Append(@, line)]
                  ELSE grouped @@ (line.term :> <<line>>),
           NoFields, lines)

\* isinstance: the concrete classes of a base.
Select(lines, classes, term) ==
  SelectSeq(lines, LAMBDA line : line.term = term /\ line.class \in classes)
=============================================================================
