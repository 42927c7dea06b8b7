-------------------------------- MODULE Json --------------------------------
(***************************************************************************)
(* The JSON reader and writer (JSON.cpp).  A text is a sequence of tokens: *)
(* the characters the reader looks for, blanks, and words.  Positions      *)
(* count from 1, so that 0 stands for npos, and index + 1 is where the     *)
(* search for the first key begins whether or not there is a brace.        *)
(***************************************************************************)
EXTENDS Naturals, Sequences, FiniteSets, FiniteSetsExt

Quote == "\""
Blank == " "
Colon == ":"
Comma == ","
Begin == "{"
End   == "}"
Ends  == {Comma, End}   \* of a value

Positions(data, tokens) == {i \in 1 .. Len(data) : data[i] \in tokens}

\* The first position from i on whose token is in the set; 0 if there is none.
FindAny(data, tokens, i) ==
  LET found == {k \in i .. Len(data) : data[k] \in tokens}
  IN  IF found = {} THEN 0 ELSE Min(found)

Find(data, token, i) == FindAny(data, {token}, i)

\* Mutant of SkipBlanks: blanks belong to the value.
SkipNothing(data, i) == i

\* Skip whitespace after the delimiter.
SkipBlanks(data, i) == Min({k \in i .. Len(data) : data[k] # Blank})

\* JSON::next, for the texts whose fields all have a delimiter and an end.
HasNext(data, index) == Find(data, Quote, index + 1) # 0

NextField(data, index) ==
  LET keyStart   == Find(data, Quote, index + 1)
      keyEnd     == Find(data, Quote, keyStart + 1)
      valueStart == SkipBlanks(data, Find(data, Colon, keyEnd) + 1)
      valueEnd   == FindAny(data, Ends, valueStart)
  IN  [key   |-> SubSeq(data, keyStart + 1, keyEnd - 1),
       value |-> SubSeq(data, valueStart, valueEnd - 1),
       index |-> valueEnd]

\* One turn of a loop over next(): what has been read so far, and where.
Turn(data, last) ==
  IF ~HasNext(data, last.index) THEN last
  ELSE LET f == NextField(data, last.index)
       IN  [fields |-> Append(last.fields, [key |-> f.key, value |-> f.value]), index |-> f.index]

\* The loop: it has ended after as many turns as there are quotes.
Quotes(data) == Cardinality(Positions(data, {Quote}))

Loop(data) ==
  LET after[n \in 0 .. Quotes(data)] ==
        IF n = 0 THEN [fields |-> <<>>, index |-> Find(data, Begin, 1)]
        ELSE Turn(data, after[n - 1])
  IN  after

Fields(data) == Loop(data)[Quotes(data)].fields

AddLiteral(data, key, value) ==
  (IF Len(data) > 1 THEN Append(data, Comma) ELSE data) \o <<Quote>> \o key \o <<Quote, Colon>> \o value

\* addLiteral for each field, then toString.
Writer(fields) ==
  LET data[n \in 0 .. Len(fields)] ==
        IF n = 0 THEN <<Begin>> ELSE AddLiteral(data[n - 1], fields[n].key, fields[n].value)
  IN  data

Written(fields) == Append(Writer(fields)[Len(fields)], End)

-----------------------------------------------------------------------------
(* The settings callback *)

\* atoi: the first word counts, and what follows it does not.
Number(value) ==
  LET words == {i \in 1 .. Len(value) : value[i] # Blank}
  IN  IF words = {} THEN "0" ELSE value[Min(words)]

\* What it takes from a field.
Setting(field) ==
  CASE field.key = <<"auto">> -> [auto |-> field.value = <<"true">>]
    [] field.key \in {<<"pressure">>, <<"speed">>} -> [key |-> field.key, number |-> Number(field.value)]
    [] OTHER -> [ignored |-> TRUE]

Settings(fields) == [i \in 1 .. Len(fields) |-> Setting(fields[i])]

-----------------------------------------------------------------------------
(* The texts: what one says in JSON, however it is read *)

\* Blanks only, if anything, between two positions.
Gap(data, from, to) == \A i \in from + 1 .. to - 1 : data[i] = Blank

\* Behind index come a quoted key, a colon, a value that neither begins nor ends
\* with a blank, and the token at end, with any number of blanks between them.
IsField(data, index, keyStart, keyEnd, colon, valueStart, valueEnd, end) ==
  /\ index < keyStart /\ keyStart < keyEnd /\ keyEnd < colon /\ colon < valueStart
  /\ valueStart <= valueEnd /\ valueEnd < end /\ end <= Len(data)
  /\ data[keyStart] = Quote /\ data[keyEnd] = Quote
  /\ \A i \in keyStart + 1 .. keyEnd - 1 : data[i] # Quote
  /\ data[colon] = Colon
  /\ data[valueStart] # Blank /\ data[valueEnd] # Blank
  /\ \A i \in valueStart .. valueEnd : data[i] \notin Ends
  /\ Gap(data, index, keyStart) /\ Gap(data, keyEnd, colon)
  /\ Gap(data, colon, valueStart) /\ Gap(data, valueEnd, end)

FieldAt(data, index, field, end) ==
  \E keyStart, keyEnd \in Positions(data, {Quote}), colon \in Positions(data, {Colon}),
     valueStart, valueEnd \in {i \in 1 .. Len(data) : data[i] # Blank} :
    /\ IsField(data, index, keyStart, keyEnd, colon, valueStart, valueEnd, end)
    /\ field = [key   |-> SubSeq(data, keyStart + 1, keyEnd - 1),
                value |-> SubSeq(data, valueStart, valueEnd)]

\* An object: fields between braces, with commas between them and blanks around.
Says(data, fields) ==
  /\ fields # <<>>
  /\ \E at \in [1 .. Len(fields) + 1 -> Positions(data, {Begin} \cup Ends)] :
       /\ data[at[1]] = Begin /\ Gap(data, 0, at[1])
       /\ \A i \in 1 .. Len(fields) :
            /\ data[at[i + 1]] = IF i = Len(fields) THEN End ELSE Comma
            /\ FieldAt(data, at[i], fields[i], at[i + 1])
       /\ Gap(data, at[Len(fields) + 1], Len(data) + 1)

\* No blank follows the word true.
TrueEnds(data) == \A i \in 1 .. Len(data) - 1 : data[i] = "true" => data[i + 1] # Blank
=============================================================================
