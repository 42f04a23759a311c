------------------------------ MODULE MCRelays ------------------------------
EXTENDS Relays

MCHost == <<"a", "lab">>
MCSnap == [host |-> MCHost, path |-> <<"chat">>, method |-> "GET", headers |-> {"h"},
           opcode |-> "text", direction |-> "client", words |-> {}]
Rule(id) == [id |-> id, enabled |-> TRUE, phase |-> "websocket",
             host |-> [wild |-> FALSE, name |-> << >>], pathExact |-> << >>,
             pathPrefix |-> << >>, method |-> Unset, header |-> Unset, opcode |-> Unset,
             direction |-> Unset, payload |-> Unset, action |-> "drop"]

OnSecret == [Rule("secret") EXCEPT !.payload = "s", !.action = "block",
               !.host = [wild |-> TRUE, name |-> <<"lab">>]]
OnText == [Rule("text") EXCEPT !.opcode = "text", !.pathPrefix = <<"chat">>]
FromClient == [Rule("client") EXCEPT !.direction = "client", !.payload = "s"]
Elsewhere == [Rule("elsewhere") EXCEPT !.host = [wild |-> TRUE, name |-> MCHost], !.payload = "s"]
Asleep == [Rule("asleep") EXCEPT !.enabled = FALSE]
OnRequest == [Rule("request") EXCEPT !.phase = "request"]

MCRuleLists == {<<Asleep, OnRequest>>, <<OnSecret, OnText>>, <<OnText, OnSecret>>,
                <<Elsewhere, FromClient>>, <<FromClient, Asleep, OnText>>}

MCNames == {MCHost, <<"x", "bad">>}
MCAddresses == {[id |-> 1, v4 |-> TRUE, in |-> {}], [id |-> 2, v4 |-> TRUE, in |-> {}],
                [id |-> 3, v4 |-> FALSE, in |-> {}],
                [id |-> 4, v4 |-> TRUE, in |-> {"metadata", "linkLocal"}],
                [id |-> 5, v4 |-> TRUE, in |-> {"local"}]}
MCTargets ==
  LET t == [denyHosts |-> {[wild |-> TRUE, name |-> <<"bad">>]}, allowHosts |-> {},
            denyCloudMetadata |-> TRUE, denyLinkLocal |-> FALSE, allowLoopback |-> FALSE,
            listeners |-> {[wild |-> TRUE, id |-> 0]}]
  IN  {t, [t EXCEPT !.denyHosts = {}, !.listeners = {[wild |-> FALSE, id |-> 2]}, !.denyCloudMetadata = FALSE, !.denyLinkLocal = TRUE],
       [t EXCEPT !.allowHosts = {[wild |-> FALSE, name |-> MCHost]}, !.denyCloudMetadata = FALSE]}
=============================================================================
