---------------------------- MODULE YahooFrames ----------------------------
(***************************************************************************)
(* How a table Yahoo Finance returns becomes the bars of one ticker        *)
(* (data/normalization.py, data/validation.py).  An answer is             *)
(*   [shape, fields, columns]: how its columns are named, which of them    *)
(* there are, and by ticker the rows in the order they came.  A row is     *)
(*   [date, bar]; bar is "good", "amended" (another good bar), "bad" (a    *)
(* price is missing, not positive or out of order) or "empty".             *)
(* An extracted frame keeps its rows at the positions they came in, a      *)
(* cleaned one is the set of its rows; NoFrame is None, or an error.       *)
(***************************************************************************)
EXTENDS Integers, Sequences, FiniteSets, Functions

CONSTANT NoFrame

\* The columns are (ticker, field) pairs, (field, ticker) pairs, the fields alone,
\* or a MultiIndex neither or both of whose levels, or one of three, name fields.
Shapes == {"tickerFirst", "fieldFirst", "plain", "other"}

\* Every column, all but Volume, or a price column missing.
Fields == {"all", "noVolume", "noPrice"}

\* index.duplicated(keep="last"): the row that came last of each date.
LastOfDate(rows) ==
    {rows[i] : i \in {i \in DOMAIN rows :
                        \A j \in DOMAIN rows : j > i => rows[j].date # rows[i].date}}

\* _none_if_empty: a frame of nothing, or without a required column, is none.
NoneIfEmpty(rows, fields) ==
    LET kept == {i \in DOMAIN rows : rows[i].bar # "empty"}
    IN IF kept = {} \/ fields # "all" THEN NoFrame ELSE Restrict(rows, kept)

TheOne(columns) == CHOOSE t \in DOMAIN columns : TRUE

\* Mutation: columns without tickers are taken for the symbol asked for.
ExtractTrusting(answer, symbol, batchSize) ==
    CASE DOMAIN answer.columns = {} -> NoFrame
      [] answer.shape = "plain" /\ DOMAIN answer.columns # {} ->
           NoneIfEmpty(answer.columns[TheOne(answer.columns)], answer.fields)
      [] answer.shape # "plain" /\ symbol \in DOMAIN answer.columns ->
           NoneIfEmpty(answer.columns[symbol], answer.fields)
      [] OTHER -> NoFrame

\* extract_symbol_frame.  One ticker asked for: the first level of the columns is
\* taken for the fields, so that (ticker, field) columns leave no field to find.
\* Several: the symbol is looked for in the first level, then in the second.
ExtractSymbolFrame(answer, symbol, batchSize) ==
    CASE /\ batchSize = 1
         /\ answer.shape \in {"fieldFirst", "plain"}
         /\ DOMAIN answer.columns # {} ->
           NoneIfEmpty(answer.columns[TheOne(answer.columns)], answer.fields)
      [] /\ batchSize > 1
         /\ answer.shape \in {"tickerFirst", "fieldFirst"}
         /\ symbol \in DOMAIN answer.columns ->
           NoneIfEmpty(answer.columns[symbol], answer.fields)
      [] OTHER -> NoFrame

\* validate_and_clean_ohlc: the last row of each date, when it is a valid bar.
ValidateAndClean(rows, minRows) ==
    LET clean == {r \in LastOfDate(rows) : r.bar \in {"good", "amended"}}
    IN IF Cardinality(clean) < minRows THEN NoFrame ELSE clean

\* normalize_ticker_frame: the field level is found by its values; a ticker that
\* is not named is taken to be the only one there is; Volume may be missing.
NormalizeTickerFrame(answer, ticker) ==
    LET match == IF ticker \in DOMAIN answer.columns THEN ticker
                 ELSE TheOne(answer.columns)
        rows == {r \in LastOfDate(answer.columns[match]) : r.bar # "empty"}
    IN IF \/ DOMAIN answer.columns = {}
          \/ answer.shape = "other"
          \/ answer.fields = "noPrice"
          \/ ticker \notin DOMAIN answer.columns /\ Cardinality(DOMAIN answer.columns) # 1
          \/ rows = {}
       THEN NoFrame
       ELSE rows

=============================================================================
