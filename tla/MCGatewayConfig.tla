--------------------------- MODULE MCGatewayConfig ---------------------------
(***************************************************************************)
(* GatewayConfig on files that differ from one of two base files in at     *)
(* most two keys, or in a section: the empty file, and one with everything *)
(* switched on.                                                            *)
(***************************************************************************)
EXTENDS GatewayConfig

Full ==
    [serial |-> [devices |-> <<"/dev/ttyS0", "/dev/ttyS1">>],
     modbus |-> [enabled |-> TRUE, port |-> "/dev/ttyUSB0"],
     can    |-> [enabled |-> TRUE],
     mqtt   |-> [username |-> "gateway", password |-> "secret"],
     tls    |-> [enabled |-> TRUE, ca_file |-> "ca.pem", certificate_file |-> "gateway.pem",
                 private_key_file |-> "gateway.key"],
     http   |-> [enabled |-> TRUE, host |-> "localhost"]]

(* The values tried for each key: on and beyond the boundaries of the      *)
(* tests, and on both sides of the widths.                                 *)
Numbers(section, key, values) == {<<section, key, v>> : v \in values \cup {Mismatch}}

Edits ==
    UNION {
      Numbers("serial", "devices", {<<>>, <<"">>, <<"/dev/ttyS0", "/dev/ttyS0">>, NotSequence}),
      Numbers("serial", "device", {"", "/dev/ttyS2"}),
      Numbers("serial", "baud_rate", {0, 4800, 9600}),
      Numbers("serial", "reconnect_interval_seconds", {0, 1}),
      Numbers("modbus", "enabled", {TRUE, FALSE}),
      Numbers("modbus", "port", {""}),
      Numbers("modbus", "baud_rate", {4800, 19200}),
      Numbers("modbus", "baudrate", {4800, 38400}),
      Numbers("modbus", "slave_id", {0, 247, 248, 257}),
      Numbers("modbus", "function_code", {4, 5, 259}),
      Numbers("modbus", "start_address", {-1, 65535, 65536}),
      Numbers("modbus", "register_count", {0, 1, 125, 126}),
      Numbers("modbus", "poll_interval_ms", {0, 1}),
      Numbers("modbus", "response_timeout_ms", {-1, 1}),
      Numbers("can", "enabled", {TRUE, FALSE}),
      Numbers("can", "interface", {""}),
      Numbers("can", "heartbeat_timeout_seconds", {0, 1}),
      Numbers("mqtt", "host", {""}),
      Numbers("mqtt", "port", {0, 65535, 65536 + 1883}),
      Numbers("mqtt", "topic_prefix", {""}),
      Numbers("mqtt", "cache_retry_interval_seconds", {0}),
      Numbers("mqtt", "username", {"", "user"}),
      Numbers("mqtt", "password", {"", "secret"}),
      Numbers("tls", "enabled", {TRUE, FALSE}),
      Numbers("tls", "ca_file", {"", "ca.pem"}),
      Numbers("tls", "certificate_file", {"", "gateway.pem"}),
      Numbers("tls", "private_key_file", {"", "gateway.key"}),
      Numbers("tls", "insecure", {TRUE}),
      Numbers("tcp", "enabled", {FALSE}),
      Numbers("tcp", "host", {""}),
      Numbers("tcp", "port", {0, 65536}),
      Numbers("http", "enabled", {TRUE}),
      Numbers("http", "host", {"", "10.0.0.1", "gateway"}),
      Numbers("http", "port", {1, 65536}),
      Numbers("cache", "type", {"FILE", "redis"}),
      Numbers("cache", "path", {""}),
      Numbers("log", "path", {""}),
      Numbers("log", "level", {"info", "verbose"})}

(* A node with the edits S of its section, and a file with the edits S;    *)
(* mqtt.tls is within mqtt.                                                *)
EditedNode(node, S) ==
    [key \in DOMAIN node \cup {e[2] : e \in S} |->
        IF \E e \in S : e[2] = key THEN (CHOOSE e \in S : e[2] = key)[3] ELSE node[key]]

Edited(base, S) ==
    LET touched == {e[1] : e \in S}
        sections == DOMAIN base \cup touched
                      \cup (IF "tls" \in touched THEN {"mqtt"} ELSE {})
    IN  [section \in sections |->
            EditedNode(IF section \in DOMAIN base THEN base[section] ELSE <<>>,
                       {e \in S : e[1] = section})]

(* One edit, or two of different keys.                                     *)
EditSets == {{d, e} : d \in Edits, e \in Edits}
Separate(S) == \A d, e \in S : d = e \/ d[1] # e[1] \/ d[2] # e[2]

(* A section that is no map; without a mqtt map there is no mqtt.tls.      *)
WithNode(base, section, node) ==
    LET sections == (DOMAIN base \cup {section} \cup (IF section = "tls" THEN {"mqtt"} ELSE {}))
                       \ (IF section = "mqtt" THEN {"tls"} ELSE {})
    IN  [s \in sections |-> IF s = section THEN node
                            ELSE IF s \in DOMAIN base THEN base[s] ELSE <<>>]

Bases == {<<>>, Full}

MCFiles ==
    Bases \cup {Unreadable, NotMap}
      \cup {Edited(base, S) : base \in Bases, S \in {T \in EditSets : Separate(T)}}
      \cup {WithNode(base, section, node) : base \in Bases, section \in DOMAIN Defaults,
                                            node \in {Null, Scalar}}

MCArguments == {<<>>, <<"gateway.yaml">>, <<"gateway.yaml", "/dev/ttyS9">>, <<"--version">>}

MCIPv4 == {"127.0.0.1", "10.0.0.1"}
=============================================================================
