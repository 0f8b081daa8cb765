---------------------------- MODULE GatewayConfig ----------------------------
(***************************************************************************)
(* From the configuration file to the components: load_gateway_config(),   *)
(* which reads the file section by section into a GatewayConfig that has   *)
(* the defaults, the checks at its end, and what main() and run_gateway()  *)
(* hand to the components.                                                 *)
(*                                                                         *)
(* A file is a function from the sections it has to their nodes, and a     *)
(* node a function from keys to values; aliases are keys of their own.     *)
(* A value has the type of its key, or is Mismatch: as<T>() throws.        *)
(***************************************************************************)
EXTENDS Integers, Sequences, Functions

CONSTANTS
    Files, Arguments,       \* the files and the argv (without argv[0]) of the runs
    Unreadable, NotMap,     \* files that YAML does not load, or not as a map
    Null, Scalar,           \* nodes that are no map
    Mismatch, NotSequence,  \* values that do not convert, or are no sequence
    IPv4                    \* the strings that inet_pton() accepts

VARIABLES file, argv,
          stage,     \* the section or step that comes next
          config,    \* gateway_config
          error,     \* the section and the keys that error_message is about
          gateway    \* what the components are made with

vars == <<file, argv, stage, config, error, gateway>>

None == <<>>

Empty == ""

(* The members of the structs and their initializers.                      *)
SerialConfig == [devices |-> <<"/tmp/tty_gateway">>, baud_rate |-> 115200,
                 reconnect_interval_seconds |-> 2]

ModbusConfig == [enabled |-> FALSE, port |-> "/dev/ttyUSB0", baud_rate |-> 115200,
                 slave_id |-> 1, function_code |-> 3, start_address |-> 0,
                 register_count |-> 6, poll_interval_ms |-> 1000, response_timeout_ms |-> 500]

CanConfig == [enabled |-> FALSE, interface |-> "can0", heartbeat_timeout_seconds |-> 5]

MqttTlsConfig == [enabled |-> FALSE, ca_file |-> Empty, certificate_file |-> Empty,
                  private_key_file |-> Empty, insecure |-> FALSE]

MqttConfig == [host |-> "localhost", port |-> 1883, topic_prefix |-> "sensor",
               cache_retry_interval_seconds |-> 5, username |-> Empty, password |-> Empty]

TcpConfig == [enabled |-> TRUE, host |-> "127.0.0.1", port |-> 9000]

HttpConfig == [enabled |-> FALSE, host |-> "127.0.0.1", port |-> 8080]

CacheConfig == [type |-> "sqlite", path |-> "data/pending_messages.db"]

LogConfig == [path |-> "logs/gateway.log", level |-> "DEBUG"]

(* GatewayConfig; mqtt.tls is a section of its own.                        *)
Defaults == [serial |-> SerialConfig, modbus |-> ModbusConfig, can |-> CanConfig,
             mqtt |-> MqttConfig, tls |-> MqttTlsConfig, tcp |-> TcpConfig,
             http |-> HttpConfig, cache |-> CacheConfig, log |-> LogConfig]

-----------------------------------------------------------------------------
(* Reading a section.                                                      *)

Keys(node) == IF node \in {Null, Scalar} THEN {} ELSE DOMAIN node

IsList(s) == s \in Seq(Range(s))

(* The list of devices is a list, or what the reading reports; so are the  *)
(* arguments; and inet_pton() accepts the address that is the default.     *)
ASSUME FilesAssumption ==
    \A f \in Files \ {Unreadable, NotMap} :
        "serial" \in DOMAIN f /\ "devices" \in Keys(f.serial) =>
            f.serial.devices \in {Mismatch, NotSequence} \/ IsList(f.serial.devices)

ASSUME ArgumentsAssumption == \A arguments \in Arguments : IsList(arguments)

ASSUME IPv4Assumption == HttpConfig.host \in IPv4

load_if_present(node, key, value) == IF key \in Keys(node) THEN node[key] ELSE value

(* The members of a section after load_if_present() of each of them.       *)
Loaded(node, members) == [key \in DOMAIN members |-> load_if_present(node, key, members[key])]

(* Reading these keys throws a YAML::Exception: a scalar has no subscript, *)
(* and a value may not convert.                                            *)
Throws(node, keys) ==
    \/ node = Scalar
    \/ \E key \in keys \cap Keys(node) : node[key] = Mismatch

About(section, keys) == [section |-> section, keys |-> keys]

(* load_gateway_config() returns false; what config holds then is not used. *)
Reject(problem) ==
    /\ error' = problem
    /\ stage' = "rejected"
    /\ UNCHANGED <<file, argv, config, gateway>>

Store(section, members, next) ==
    /\ config' = [config EXCEPT ![section] = members]
    /\ stage' = next
    /\ UNCHANGED <<file, argv, error, gateway>>

(* The file does not have the section.                                     *)
Skip(section, next) ==
    /\ stage = section /\ section \notin DOMAIN file
    /\ stage' = next
    /\ UNCHANGED <<file, argv, config, error, gateway>>

Read(section) == stage = section /\ section \in DOMAIN file

(* YAML::LoadFile(), and the test that the root is a map.                  *)
LoadFile ==
    /\ stage = "file"
    /\ IF file \in {Unreadable, NotMap}
       THEN Reject(About("file", {}))
       ELSE /\ stage' = "serial"
            /\ UNCHANGED <<file, argv, config, error, gateway>>

(* serial.devices, or else serial.device.                                  *)
LoadSerial ==
    /\ Read("serial")
    /\ LET node == file.serial
           list == "devices" \in Keys(node)
           single == "device" \in Keys(node) /\ ~list
           read == {"baud_rate", "reconnect_interval_seconds"}
                     \cup (IF list THEN {"devices"} ELSE {"device"})
       IN  IF list /\ node.devices = NotSequence THEN Reject(About("serial", {"devices"}))
           ELSE IF Throws(node, read) THEN Reject(About("serial", read))
           ELSE Store("serial",
                      [Loaded(node, config.serial) EXCEPT
                          !.devices = IF single THEN <<node.device>> ELSE @],
                      "modbus")

Between(n, low, high) == n \in Int /\ low <= n /\ n <= high

(* The four numbers are read as int, tested, and narrowed.                 *)
LoadModbus ==
    /\ Read("modbus")
    /\ LET node == file.modbus
           read == DOMAIN config.modbus \cup {"baudrate"}
           loaded == [Loaded(node, config.modbus) EXCEPT
                         !.baud_rate = load_if_present(node, "baudrate", @)]
       IN  IF Throws(node, read) THEN Reject(About("modbus", read))
           ELSE IF ~Between(loaded.slave_id, 1, 247) THEN Reject(About("modbus", {"slave_id"}))
           ELSE IF loaded.function_code \notin {3, 4}
                THEN Reject(About("modbus", {"function_code"}))
           ELSE IF \/ ~Between(loaded.start_address, 0, 65535)
                   \/ ~Between(loaded.register_count, 1, 125)
                THEN Reject(About("modbus", {"start_address", "register_count"}))
           ELSE Store("modbus",
                      [loaded EXCEPT !.slave_id = @ % 2^8, !.function_code = @ % 2^8,
                                     !.start_address = @ % 2^16,
                                     !.register_count = @ % 2^16],
                      "can")

LoadCan ==
    /\ Read("can")
    /\ IF Throws(file.can, DOMAIN config.can)
       THEN Reject(About("can", DOMAIN config.can))
       ELSE Store("can", Loaded(file.can, config.can), "mqtt")

(* A port is read as int, tested, and narrowed; the keys named before it   *)
(* are read first, the others after the test.                              *)
LoadEndpoint(section, before, next) ==
    /\ Read(section)
    /\ LET node == file[section]
           loaded == Loaded(node, config[section])
       IN  IF Throws(node, before \cup {"port"})
           THEN Reject(About(section, before \cup {"port"}))
           ELSE IF ~Between(loaded.port, 1, 65535) THEN Reject(About(section, {"port"}))
           ELSE IF Throws(node, DOMAIN loaded) THEN Reject(About(section, DOMAIN loaded))
           ELSE Store(section, [loaded EXCEPT !.port = @ % 2^16], next)

LoadMqtt == LoadEndpoint("mqtt", {"host"}, "tls")

LoadTls ==
    /\ Read("tls")
    /\ IF Throws(file.tls, DOMAIN config.tls)
       THEN Reject(About("tls", DOMAIN config.tls))
       ELSE Store("tls", Loaded(file.tls, config.tls), "tcp")

LoadTcp == LoadEndpoint("tcp", {"enabled", "host"}, "http")

(* Only http is also tested to be a map.                                   *)
LoadHttp ==
    \/ Read("http") /\ file.http \in {Null, Scalar} /\ Reject(About("http", {}))
    \/ Read("http") /\ file.http \notin {Null, Scalar}
         /\ LoadEndpoint("http", {"enabled", "host"}, "cache")

lowercase(text) ==
    CASE text \in {"sqlite", "SQLite"} -> "sqlite"
      [] text \in {"file", "FILE"} -> "file"
      [] OTHER -> text

uppercase(text) ==
    CASE text \in {"debug", "DEBUG"} -> "DEBUG"
      [] text \in {"info", "INFO"} -> "INFO"
      [] text \in {"warn", "WARN"} -> "WARN"
      [] text \in {"error", "ERROR"} -> "ERROR"
      [] OTHER -> text

LoadCache ==
    /\ Read("cache")
    /\ IF Throws(file.cache, DOMAIN config.cache)
       THEN Reject(About("cache", DOMAIN config.cache))
       ELSE Store("cache", [Loaded(file.cache, config.cache) EXCEPT !.type = lowercase(@)],
                  "log")

LoadLog ==
    /\ Read("log")
    /\ IF Throws(file.log, DOMAIN config.log)
       THEN Reject(About("log", DOMAIN config.log))
       ELSE Store("log", [Loaded(file.log, config.log) EXCEPT !.level = uppercase(@)],
                  "checks")

SkipSection ==
    \/ Skip("serial", "modbus") \/ Skip("modbus", "can") \/ Skip("can", "mqtt")
    \/ Skip("mqtt", "tls") \/ Skip("tls", "tcp") \/ Skip("tcp", "http")
    \/ Skip("http", "cache") \/ Skip("cache", "log") \/ Skip("log", "checks")

-----------------------------------------------------------------------------
(* The checks at the end of load_gateway_config(), in their order; each    *)
(* with what the message is about.                                         *)

Check(passes, section, keys) == [passes |-> passes, problem |-> About(section, keys)]

(* A faulty is_supported_baud_rate: one more rate.                         *)
is_supported_baud_rate_4800(baud_rate) ==
    baud_rate \in {4800, 9600, 19200, 38400, 57600, 115200}

is_supported_baud_rate(baud_rate) == baud_rate \in {9600, 19200, 38400, 57600, 115200}

SerialChecks(c) ==
    <<Check(Empty \notin Range(c.devices) /\ IsInjective(c.devices),
            "serial", {"devices", "device"}),
      Check(is_supported_baud_rate(c.baud_rate), "serial", {"baud_rate"}),
      Check(c.reconnect_interval_seconds >= 1, "serial", {"reconnect_interval_seconds"})>>

ModbusChecks(c) ==
    <<Check(c.enabled => c.port # Empty, "modbus", {"port"}),
      Check(c.enabled => is_supported_baud_rate(c.baud_rate),
            "modbus", {"baud_rate", "baudrate"}),
      Check(c.enabled => c.poll_interval_ms >= 1 /\ c.response_timeout_ms >= 1,
            "modbus", {"poll_interval_ms", "response_timeout_ms"})>>

CanChecks(c) ==
    <<Check(c.enabled => c.interface # Empty, "can", {"interface"}),
      Check(c.heartbeat_timeout_seconds >= 1, "can", {"heartbeat_timeout_seconds"})>>

InputChecks(c) ==
    <<Check(c.serial.devices # <<>> \/ c.modbus.enabled \/ c.can.enabled,
            "serial", {"devices"})>>

MqttChecks(c) ==
    <<Check(c.host # Empty, "mqtt", {"host"}),
      Check(c.topic_prefix # Empty, "mqtt", {"topic_prefix"}),
      Check(c.cache_retry_interval_seconds >= 1, "mqtt", {"cache_retry_interval_seconds"}),
      Check(c.username = Empty => c.password = Empty, "mqtt", {"password"})>>

(* A faulty TlsChecks: the certificate authority is always required.       *)
TlsChecksAlways(c) ==
    <<Check(c.ca_file # Empty, "tls", {"enabled"}),
      Check((c.certificate_file = Empty) <=> (c.private_key_file = Empty),
            "tls", {"certificate_file", "private_key_file"}),
      Check(c.insecure => c.enabled, "tls", {"insecure"})>>

TlsChecks(c) ==
    <<Check(c.enabled => c.ca_file # Empty, "tls", {"enabled"}),
      Check((c.certificate_file = Empty) <=> (c.private_key_file = Empty),
            "tls", {"certificate_file", "private_key_file"}),
      Check(c.insecure => c.enabled, "tls", {"insecure"})>>

is_valid_http_host(host) == host = "localhost" \/ host \in IPv4

TcpChecks(c) == <<Check(c.enabled => c.host # Empty, "tcp", {"host"})>>

HttpChecks(c) ==
    <<Check(c.host # Empty, "http", {"host"}),
      Check(c.enabled => is_valid_http_host(c.host), "http", {"host"})>>

CacheChecks(c) ==
    <<Check(c.path # Empty, "cache", {"path"}),
      Check(c.type \in {"sqlite", "file"}, "cache", {"type"})>>

is_valid_log_level(level) == level \in {"DEBUG", "INFO", "WARN", "ERROR"}

LogChecks(c) ==
    <<Check(c.path # Empty, "log", {"path"}),
      Check(is_valid_log_level(c.level), "log", {"level"})>>

Checks(c) ==
    SerialChecks(c.serial) \o ModbusChecks(c.modbus) \o CanChecks(c.can) \o InputChecks(c)
      \o MqttChecks(c.mqtt) \o TlsChecks(c.tls) \o TcpChecks(c.tcp) \o HttpChecks(c.http)
      \o CacheChecks(c.cache) \o LogChecks(c.log)

(* The first check that fails is the one reported.                         *)
Validate ==
    /\ stage = "checks"
    /\ LET checks == Checks(config)
       IN  \/ \E first \in DOMAIN checks :
                 /\ ~checks[first].passes /\ \A i \in 1..(first - 1) : checks[i].passes
                 /\ Reject(checks[first].problem)
           \/ /\ \A check \in Range(checks) : check.passes
              /\ stage' = "main"
              /\ UNCHANGED <<file, argv, config, error, gateway>>

-----------------------------------------------------------------------------
(* main() and run_gateway().                                               *)

(* edge_gateway --version                                                  *)
Version ==
    /\ stage = "argv"
    /\ argv = <<"--version">>
    /\ stage' = "exit"
    /\ UNCHANGED <<file, argv, config, error, gateway>>

(* edge_gateway [file [device]]                                            *)
ChooseFile ==
    /\ stage = "argv"
    /\ argv # <<"--version">>
    /\ stage' = "file"
    /\ UNCHANGED <<file, argv, config, error, gateway>>

parse_log_level(level) == IF level \in {"INFO", "WARN", "ERROR"} THEN level ELSE "DEBUG"

(* The signal handlers cannot be installed, the SQLite cache is not ready  *)
(* or the HTTP server does not start.                                      *)
RunGatewayFails ==
    /\ stage = "main"
    /\ stage' = "exit"
    /\ UNCHANGED <<file, argv, config, error, gateway>>

(* The devices of the argument replace those of the file.                  *)
Devices == IF Len(argv) >= 2 THEN <<argv[2]>> ELSE config.serial.devices

Uart(path) == [kind |-> "uart", port |-> path, baud_rate |-> config.serial.baud_rate]

Modbus == [key \in DOMAIN config.modbus \cup {"kind"} |->
              IF key = "kind" THEN "modbus" ELSE config.modbus[key]]

Can == [kind |-> "can", port |-> config.can.interface]

When(condition, element) == IF condition THEN <<element>> ELSE <<>>

run_gateway ==
    /\ stage = "main"
    /\ gateway' =
         [log_level  |-> parse_log_level(config.log.level),
          mqtt       |-> config.mqtt,
          tls        |-> config.tls,
          cache      |-> IF config.cache.type = "sqlite" THEN "SqliteCache" ELSE "FileCache",
          tcp        |-> When(config.tcp.enabled, config.tcp),
          http       |-> When(config.http.enabled, config.http),
          inputs     |-> [i \in DOMAIN Devices |-> Uart(Devices[i])]
                           \o When(config.modbus.enabled, Modbus)
                           \o When(config.can.enabled, Can),
          reconnect  |-> config.serial.reconnect_interval_seconds,
          heartbeat  |-> config.can.heartbeat_timeout_seconds]
    /\ stage' = "running"
    /\ UNCHANGED <<file, argv, config, error>>

(* The loader has done its work.                                           *)
Finished == stage \in {"rejected", "exit", "running"} /\ UNCHANGED vars

Init ==
    /\ file \in Files /\ argv \in Arguments
    /\ stage = "argv" /\ config = Defaults /\ error = None /\ gateway = None

Next == \/ Version \/ ChooseFile \/ LoadFile \/ SkipSection
        \/ LoadSerial \/ LoadModbus \/ LoadCan \/ LoadMqtt \/ LoadTls \/ LoadTcp
        \/ LoadHttp \/ LoadCache \/ LoadLog \/ Validate
        \/ RunGatewayFails \/ run_gateway \/ Finished

Spec == Init /\ [][Next]_vars

-----------------------------------------------------------------------------
(* What the components make of what they are given.                        *)

(* SerialPort::to_speed(); 0 is a rate it does not know.                   *)
to_speed(baud_rate) ==
    IF baud_rate \in {9600, 19200, 38400, 57600, 115200} THEN baud_rate ELSE 0

(* HttpServer::start() finds an address.                                   *)
HasAddress(host) == host = "localhost" \/ host \in IPv4

(* MqttClient::configure_security(): libmosquitto refuses an empty name of *)
(* the authorities' file, and a certificate without its key.               *)
configure_security(tls) ==
    tls.enabled => /\ tls.ca_file # Empty
                   /\ (tls.certificate_file = Empty) <=> (tls.private_key_file = Empty)

TypeOK ==
    /\ stage \in {"argv", "file", "checks", "main", "rejected", "exit", "running"}
                   \cup DOMAIN Defaults
    /\ DOMAIN config = DOMAIN Defaults
    /\ \A section \in DOMAIN Defaults :
          DOMAIN config[section] = DOMAIN Defaults[section]

(* What the file says of a key, or the default.                            *)
Setting(section, key) ==
    IF section \in DOMAIN file /\ file[section] # Null /\ key \in DOMAIN file[section]
    THEN file[section][key] ELSE Defaults[section][key]

(* A gateway that runs has inputs, every component accepts what it was     *)
(* given (the loader and the components have lists and tests of their own, *)
(* and two of the choices an ELSE for whatever is not known), and that is  *)
(* what the file says: no number changes when it is narrowed, no section   *)
(* is mixed up with another and no text falls through to a default.        *)
ComponentsAsConfigured ==
    stage = "running" =>
        /\ gateway.inputs # <<>>
        /\ \A input \in Range(gateway.inputs) :
              /\ input.port # Empty \/ Len(argv) >= 2
              /\ input.kind # "can" => to_speed(input.baud_rate) # 0
              /\ input.kind = "modbus" =>
                    \A key \in DOMAIN Defaults.modbus \ {"baud_rate"} :
                        input[key] = Setting("modbus", key)
        /\ configure_security(gateway.tls)
        /\ \A key \in DOMAIN Defaults.mqtt : gateway.mqtt[key] = Setting("mqtt", key)
        /\ \A tcp \in Range(gateway.tcp) : tcp.port = Setting("tcp", "port")
        /\ \A http \in Range(gateway.http) :
              HasAddress(http.host) /\ http.port = Setting("http", "port")
        /\ gateway.log_level = uppercase(Setting("log", "level"))
        /\ gateway.cache = IF lowercase(Setting("cache", "type")) = "file"
                             THEN "FileCache" ELSE "SqliteCache"

(* The file explains why the loader complains of these keys.               *)
Explains(section, keys) ==
    /\ section \in DOMAIN file
    /\ LET node == file[section]
       IN  IF keys = {} THEN node \in {Null, Scalar}
           ELSE node = Scalar \/ keys \cap Keys(node) # {}

(* Every rejection has its cause in the file: it sets one of the keys that *)
(* the message is about, or the section is not a map.  So the defaults     *)
(* agree with every check, leaving a key out is always allowed, and no     *)
(* section is rejected for what another says.                              *)
RejectedForCause ==
    stage = "rejected" /\ error.section # "file" => Explains(error.section, error.keys)

-----------------------------------------------------------------------------
(* The inductive invariant: a section has the defaults until it is read,   *)
(* and what the file says from then on.                                    *)

Order == [argv |-> 0, file |-> 1, serial |-> 2, modbus |-> 3, can |-> 4, mqtt |-> 5, tls |-> 6,
          tcp |-> 7, http |-> 8, cache |-> 9, log |-> 10, checks |-> 11, main |-> 12,
          running |-> 13]

Sets(section, keys) == section \in DOMAIN file /\ keys \cap Keys(file[section]) # {}

(* The keys that are not taken as they are, and what they become.          *)
Converted == {<<"serial", "devices">>, <<"modbus", "baud_rate">>,
              <<"cache", "type">>, <<"log", "level">>}

SerialRead(members) ==
    /\ IsList(members.devices)
    /\ members.devices # Defaults.serial.devices => Sets("serial", {"devices", "device"})
    /\ members.devices = <<>> => Sets("serial", {"devices"})

ModbusRead(members) ==
    /\ members.baud_rate # Defaults.modbus.baud_rate => Sets("modbus", {"baud_rate", "baudrate"})
    /\ Between(members.slave_id, 1, 247) /\ members.function_code \in {3, 4}
    /\ Between(members.start_address, 0, 65535) /\ Between(members.register_count, 1, 125)

AsRead(section, members) ==
    /\ section \in DOMAIN file => file[section] # Scalar
    /\ \A key \in DOMAIN Defaults[section] :
          <<section, key>> \in Converted \/ members[key] = Setting(section, key)
    /\ section = "serial" => SerialRead(members)
    /\ section = "modbus" => ModbusRead(members)
    /\ section \in {"mqtt", "tcp", "http"} => Between(members.port, 1, 65535)
    /\ section = "cache" => members.type = lowercase(Setting("cache", "type"))
    /\ section = "log" => members.level = uppercase(Setting("log", "level"))

SectionsSound ==
    stage \in DOMAIN Order =>
        /\ Order[stage] > Order.file => file \notin {Unreadable, NotMap}
        /\ \A section \in DOMAIN Defaults :
              IF Order[stage] <= Order[section] THEN config[section] = Defaults[section]
                                                ELSE AsRead(section, config[section])

ChecksPassed ==
    stage \in {"main", "running"} => \A check \in Range(Checks(config)) : check.passes

LoaderIInv == /\ file \in Files /\ argv \in Arguments /\ TypeOK
              /\ SectionsSound /\ ChecksPassed /\ ComponentsAsConfigured /\ RejectedForCause
=============================================================================
