---------------------------- MODULE MCMqttClient ----------------------------
(* MqttClient with two settings messages; the numbers are in MqttClient.cfg. *)
EXTENDS MqttClient, TLC

Field(key, value) == [key |-> <<key>>, value |-> <<value>>]

Fields1 == <<Field("auto", "false"), Field("speed", "0")>>
Fields2 == <<Field("auto", "true"), Field("pressure", "10")>>

Blanks(n) == [i \in 1 .. n |-> Blank]

\* One message as JSON::addLiteral writes it, one with blanks wherever JSON allows
\* them, but for the one place where the callback does not.
Text1 == Written(Fields1)
Text2 == << Blank, "{", Blank, Quote, "auto", Quote, Blank, ":", Blank, Blank, "true", ",", Blank,
            Quote, "pressure", Quote, ":", Blank, "10", Blank, "}" >>

\* With blanks behind, the last packet with one byte of length, and the first with two.
MCTexts == 1 :> Text1 \o Blanks(120 - Len(Text1)) @@ 300 :> Text2 \o Blanks(121 - Len(Text2))
MCMeanings == 1 :> Fields1 @@ 300 :> Fields2
MCQoS == 1 :> 2 @@ 300 :> 1

\* The status fills the buffer.
MCStrings ==
  [client |-> <<"ventilation">>, settings |-> <<"controller", "/", "settings">>,
   status |-> <<"controller", "/", "status">>, text |-> Blanks(246)]
=============================================================================
