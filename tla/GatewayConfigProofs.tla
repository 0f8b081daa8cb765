------------------------- MODULE GatewayConfigProofs -------------------------
(***************************************************************************)
(* The configuration, proved for any files, arguments and addresses.       *)
(***************************************************************************)
EXTENDS GatewayConfig, TLAPS

(* Records are for SMT: it is tried again, with more time, where the first *)
(* attempts find no proof; the steps for Zenon say so.                     *)
USE SMTT(15), SMTT(30), SMTT(45), SMTT(60)

-----------------------------------------------------------------------------
(* What a sequence is, as a function.                                      *)
LEMMA LenProperties ==
    ASSUME NEW S, NEW s \in Seq(S)
    PROVE  Len(s) \in Nat /\ s \in [1..Len(s) -> S] /\ DOMAIN s = 1..Len(s)
  OBVIOUS

(* The elements of a concatenation.                                        *)
LEMMA RangeConcat ==
    ASSUME NEW S, NEW s \in Seq(S), NEW t \in Seq(S)
    PROVE  s \o t \in Seq(S) /\ Range(s \o t) = Range(s) \cup Range(t)
  <1>1. /\ s \o t \in Seq(S) /\ Len(s \o t) = Len(s) + Len(t)
        /\ \A i \in 1..Len(s) + Len(t) :
              (s \o t)[i] = IF i <= Len(s) THEN s[i] ELSE t[i - Len(s)]
    OBVIOUS
  <1>2. /\ DOMAIN s = 1..Len(s) /\ DOMAIN t = 1..Len(t) /\ DOMAIN (s \o t) = 1..Len(s \o t)
        /\ Len(s) \in Nat /\ Len(t) \in Nat
    BY <1>1, LenProperties
  <1>3. ASSUME NEW i \in 1..Len(s) + Len(t)
        PROVE  (s \o t)[i] \in Range(s) \cup Range(t)
    BY <1>1, <1>2 DEF Range
  <1>4. ASSUME NEW i \in 1..Len(s)
        PROVE  s[i] \in Range(s \o t)
    BY <1>1, <1>2 DEF Range
  <1>5. ASSUME NEW i \in 1..Len(t)
        PROVE  t[i] \in Range(s \o t)
    <2>1. i + Len(s) \in 1..Len(s) + Len(t) /\ (s \o t)[i + Len(s)] = t[i]
      BY <1>1, <1>2
    <2> QED  BY <1>1, <1>2, <2>1, ZenonT(60) DEF Range
  <1> QED  BY <1>1, <1>2, <1>3, <1>4, <1>5, ZenonT(60) DEF Range

-----------------------------------------------------------------------------
(* The defaults.                                                           *)

LEMMA TextNotEmpty ==
    \A text \in {"/tmp/tty_gateway", "/dev/ttyUSB0", "can0", "localhost", "sensor", "127.0.0.1",
                 "data/pending_messages.db", "logs/gateway.log"} : text # Empty
  BY ZenonT(60) DEF Empty

LEMMA DefaultSections ==
    /\ Defaults.serial = SerialConfig /\ Defaults.modbus = ModbusConfig
    /\ Defaults.can = CanConfig /\ Defaults.mqtt = MqttConfig
    /\ Defaults.tls = MqttTlsConfig /\ Defaults.tcp = TcpConfig
    /\ Defaults.http = HttpConfig /\ Defaults.cache = CacheConfig
    /\ Defaults.log = LogConfig
  BY DEF Defaults

-----------------------------------------------------------------------------
(* The order of the sections.                                              *)

Sections == {"serial", "modbus", "can", "mqtt", "tls", "tcp", "http", "cache", "log"}

LEMMA SectionsOrdered ==
    /\ DOMAIN Defaults = Sections
    /\ DOMAIN Order = {"argv", "file"} \cup Sections \cup {"checks", "main", "running"}
    /\ \A s \in DOMAIN Order : Order[s] \in Nat
    /\ \A s, t \in Sections : Order[s] = Order[t] => s = t
    /\ \A s \in Sections : Order.file < Order[s] /\ Order[s] < Order.checks
    /\ Order.checks < Order.main /\ Order.main < Order.running /\ Order.argv < Order.file
    /\ Order.file + 1 = Order.serial
  BY DEF Defaults, Order, Sections

(* Each section and the stage after it.                                    *)
LEMMA SectionSteps ==
    /\ {"serial", "modbus", "can", "mqtt", "tls", "tcp", "http", "cache", "log", "checks"}
          \subseteq DOMAIN Order
    /\ Order["modbus"] = Order["serial"] + 1 /\ Order["can"] = Order["modbus"] + 1
    /\ Order["mqtt"] = Order["can"] + 1 /\ Order["tls"] = Order["mqtt"] + 1
    /\ Order["tcp"] = Order["tls"] + 1 /\ Order["http"] = Order["tcp"] + 1
    /\ Order["cache"] = Order["http"] + 1 /\ Order["log"] = Order["cache"] + 1
    /\ Order["checks"] = Order["log"] + 1
  BY DEF Order

(* The sections are behind when the program runs.                          *)
LEMMA SectionsBehind ==
    /\ \A s \in Sections : ~(Order["running"] <= Order[s]) /\ ~(Order["main"] <= Order[s])
    /\ "main" \in DOMAIN Order /\ Order["main"] > Order.file
  BY SectionsOrdered DEF Sections

(* Every section but the one of the stage is read before the stage, or     *)
(* after it.                                                               *)
LEMMA NextStage ==
    ASSUME NEW section \in Sections, NEW next \in DOMAIN Order,
           Order[next] = Order[section] + 1
    PROVE  /\ next \notin {"argv", "file", "main", "running", "rejected"}
           /\ \A s \in Sections \ {section} : Order[section] <= Order[s] <=> Order[next] <= Order[s]
           /\ Order[section] <= Order[section] /\ ~(Order[next] <= Order[section])
           /\ Order[next] > Order.file /\ Order[section] > Order.file
  BY SectionsOrdered DEF Sections

-----------------------------------------------------------------------------
(* A step that stores a section, leaves one out or rejects the file.       *)

LEMMA FileKept ==
    ASSUME UNCHANGED file
    PROVE  /\ \A section, members : AsRead(section, members)' <=> AsRead(section, members)
           /\ \A section, keys : Explains(section, keys)' <=> Explains(section, keys)
           /\ \A section, key : Setting(section, key)' = Setting(section, key)
  BY DEF AsRead, Explains, Setting, SerialRead, ModbusRead, Sets

LEMMA AsReadIs ==
    ASSUME NEW section, NEW c, AsRead(section, c)
    PROVE  /\ section \in DOMAIN file => file[section] # Scalar
           /\ \A key \in DOMAIN Defaults[section] :
                 <<section, key>> \notin Converted => c[key] = Setting(section, key)
           /\ section = "serial" => SerialRead(c)
           /\ section = "modbus" => ModbusRead(c)
           /\ section = "cache" => c.type = lowercase(Setting("cache", "type"))
           /\ section = "log" => c.level = uppercase(Setting("log", "level"))
  BY DEF AsRead

LEMMA ModbusAsRead ==
    ASSUME NEW c, file.modbus # Scalar, ModbusRead(c),
           \A key \in DOMAIN Defaults.modbus \ {"baud_rate"} : c[key] = Setting("modbus", key)
    PROVE  AsRead("modbus", c)
  BY DEF AsRead, Converted

LEMMA NotSet ==
    ASSUME NEW section, NEW c, AsRead(section, c), NEW keys, ~Sets(section, keys), NEW key \in keys
    PROVE  /\ Setting(section, key) = Defaults[section][key]
           /\ key \in DOMAIN Defaults[section] /\ <<section, key>> \notin Converted =>
                 c[key] = Defaults[section][key]
  <1>1. Setting(section, key) = Defaults[section][key]
    BY AsReadIs DEF Sets, Setting, Keys
  <1> QED  BY <1>1, AsReadIs

LEMMA ConvertedNotSet ==
    ASSUME NEW c
    PROVE  /\ AsRead("serial", c) /\ ~Sets("serial", {"devices", "device"}) =>
                 c.devices = SerialConfig.devices
           /\ AsRead("serial", c) /\ ~Sets("serial", {"devices"}) => c.devices # <<>>
           /\ AsRead("modbus", c) /\ ~Sets("modbus", {"baud_rate", "baudrate"}) =>
                 c.baud_rate = 115200
  <1>1. ModbusConfig.baud_rate = 115200
    BY DEF ModbusConfig
  <1> QED  BY <1>1, AsReadIs, DefaultSections DEF SerialRead, ModbusRead

LEMMA InitInv ==
    ASSUME Init
    PROVE  LoaderIInv
  <1>1. TypeOK
    BY SectionsOrdered DEF Init, TypeOK, Sections
  <1>2. SectionsSound
    BY SectionsOrdered DEF Init, SectionsSound
  <1> QED  BY <1>1, <1>2
           DEF Init, LoaderIInv, ChecksPassed, ComponentsAsConfigured, RejectedForCause

LEMMA StutterKeeps ==
    ASSUME LoaderIInv, UNCHANGED <<file, argv, stage, config, error, gateway>>
    PROVE  LoaderIInv'
  <1>1. TypeOK' /\ ChecksPassed'
    BY ZenonT(60) DEF LoaderIInv, TypeOK, ChecksPassed
  <1>2. SectionsSound'
    BY FileKept DEF LoaderIInv, SectionsSound
  <1>3. ComponentsAsConfigured'
    BY FileKept DEF LoaderIInv, ComponentsAsConfigured
  <1>4. RejectedForCause'
    BY FileKept DEF LoaderIInv, RejectedForCause
  <1> QED  BY <1>1, <1>2, <1>3, <1>4 DEF LoaderIInv

LEMMA StoreKeeps ==
    ASSUME LoaderIInv, NEW section \in Sections, NEW next \in DOMAIN Order,
           NEW members, DOMAIN members = DOMAIN Defaults[section], AsRead(section, members),
           stage = section, Order[next] = Order[section] + 1,
           Store(section, members, next)
    PROVE  LoaderIInv'
  <1>1. /\ config' = [config EXCEPT ![section] = members] /\ stage' = next
        /\ UNCHANGED <<file, argv, error, gateway>>
    BY DEF Store
  <1>2. DOMAIN config = Sections /\ DOMAIN Defaults = Sections
    BY SectionsOrdered DEF LoaderIInv, TypeOK
  <1>3. /\ config'[section] = members /\ DOMAIN config' = Sections
        /\ \A s \in Sections \ {section} : config'[s] = config[s]
    BY <1>1, <1>2
  <1>4. TypeOK'
    <2>1. next \in {"argv", "file", "checks", "main", "rejected", "exit", "running"} \cup Sections
      BY SectionsOrdered
    <2>2. \A s \in Sections : DOMAIN config'[s] = DOMAIN Defaults[s]
      BY <1>2, <1>3 DEF LoaderIInv, TypeOK
    <2> QED  BY <1>1, <1>2, <1>3, <2>1, <2>2 DEF TypeOK
  <1>5. SectionsSound'
    <2> SUFFICES ASSUME NEW s \in Sections
                 PROVE  /\ file' \notin {Unreadable, NotMap}
                        /\ IF Order[next] <= Order[s] THEN config'[s] = Defaults[s]
                                                      ELSE AsRead(s, config[s])'
      BY <1>1, <1>2 DEF SectionsSound
    <2>1. section \in DOMAIN Order
      BY SectionsOrdered
    <2>2. CASE s = section
      BY <1>1, <1>3, <2>1, <2>2, NextStage, FileKept DEF LoaderIInv, SectionsSound
    <2>3. CASE s # section
      BY <1>1, <1>2, <1>3, <2>1, <2>3, NextStage, FileKept DEF LoaderIInv, SectionsSound
    <2> QED  BY <2>2, <2>3
  <1>6. stage' \notin {"main", "running", "rejected"}
    BY <1>1, NextStage
  <1>7. ChecksPassed' /\ ComponentsAsConfigured' /\ RejectedForCause'
    BY <1>6 DEF ChecksPassed, ComponentsAsConfigured, RejectedForCause
  <1> QED  BY <1>1, <1>4, <1>5, <1>7 DEF LoaderIInv

(* A section that the file does not have keeps the defaults, and they are  *)
(* what the file says.                                                     *)
LEMMA DefaultsRead ==
    ASSUME NEW section \in Sections, section \notin DOMAIN file
    PROVE  AsRead(section, Defaults[section])
  <1>1. \A key : Setting(section, key) = Defaults[section][key]
    BY DEF Setting
  <1>2. SerialRead(Defaults.serial)
    BY DefaultSections DEF SerialRead, SerialConfig, IsList, Range
  <1>3. ModbusRead(Defaults.modbus)
    BY DefaultSections DEF ModbusRead, ModbusConfig, Between
  <1>4. section \in {"mqtt", "tcp", "http"} => Between(Defaults[section].port, 1, 65535)
    <2>1. MqttConfig.port = 1883 /\ TcpConfig.port = 9000 /\ HttpConfig.port = 8080
      BY DEF MqttConfig, TcpConfig, HttpConfig
    <2> QED  BY <2>1, DefaultSections DEF Between
  <1>5. Defaults.cache.type = lowercase(Defaults.cache.type)
    BY DefaultSections DEF lowercase, CacheConfig
  <1>6. Defaults.log.level = uppercase(Defaults.log.level)
    BY DefaultSections DEF uppercase, LogConfig
  <1> QED  BY <1>1, <1>2, <1>3, <1>4, <1>5, <1>6 DEF AsRead

LEMMA SkipKeeps ==
    ASSUME LoaderIInv, NEW section \in Sections, NEW next \in DOMAIN Order,
           Order[next] = Order[section] + 1, Skip(section, next)
    PROVE  LoaderIInv'
  <1>1. /\ stage = section /\ section \notin DOMAIN file /\ stage' = next
        /\ UNCHANGED <<file, argv, config, error, gateway>>
    BY DEF Skip
  <1>2. section \in DOMAIN Order /\ DOMAIN Defaults = Sections
    BY SectionsOrdered
  <1>3. config[section] = Defaults[section]
    BY <1>1, <1>2, NextStage DEF LoaderIInv, SectionsSound
  <1>4. TypeOK'
    BY <1>1, <1>2, SectionsOrdered DEF LoaderIInv, TypeOK
  <1>5. SectionsSound'
    <2> SUFFICES ASSUME NEW s \in Sections
                 PROVE  /\ file' \notin {Unreadable, NotMap}
                        /\ IF Order[next] <= Order[s] THEN config'[s] = Defaults[s]
                                                      ELSE AsRead(s, config[s])'
      BY <1>1, <1>2 DEF SectionsSound
    <2>1. CASE s = section
      BY <1>1, <1>2, <1>3, <2>1, DefaultsRead, NextStage, FileKept DEF LoaderIInv, SectionsSound
    <2>2. CASE s # section
      BY <1>1, <1>2, <2>2, NextStage, FileKept DEF LoaderIInv, SectionsSound
    <2> QED  BY <2>1, <2>2
  <1>6. stage' \notin {"main", "running", "rejected"}
    BY <1>1, NextStage
  <1>7. ChecksPassed' /\ ComponentsAsConfigured' /\ RejectedForCause'
    BY <1>6 DEF ChecksPassed, ComponentsAsConfigured, RejectedForCause
  <1> QED  BY <1>1, <1>4, <1>5, <1>7 DEF LoaderIInv

LEMMA SkipSectionKeeps ==
    ASSUME LoaderIInv, SkipSection
    PROVE  LoaderIInv'
  <1>1. PICK section \in Sections, next \in DOMAIN Order :
            Order[next] = Order[section] + 1 /\ Skip(section, next)
    <2>1. /\ "serial" \in Sections /\ "modbus" \in Sections /\ "can" \in Sections
          /\ "mqtt" \in Sections /\ "tls" \in Sections /\ "tcp" \in Sections
          /\ "http" \in Sections /\ "cache" \in Sections /\ "log" \in Sections
      BY DEF Sections
    <2> QED  BY <2>1, SectionSteps DEF SkipSection
  <1> QED  BY <1>1, SkipKeeps

(* A rejection that the file explains.                                     *)
LEMMA ProblemKeeps ==
    ASSUME LoaderIInv, NEW problem, Reject(problem),
           problem.section = "file" \/ Explains(problem.section, problem.keys)
    PROVE  LoaderIInv'
  <1>1. error' = problem /\ stage' = "rejected" /\ UNCHANGED <<file, argv, config, gateway>>
    BY DEF Reject
  <1>2. TypeOK'
    BY <1>1 DEF LoaderIInv, TypeOK
  <1>3. SectionsSound' /\ ChecksPassed' /\ ComponentsAsConfigured'
    BY <1>1, SectionsOrdered DEF SectionsSound, ChecksPassed, ComponentsAsConfigured, Sections
  <1>4. RejectedForCause'
    BY <1>1, FileKept DEF RejectedForCause
  <1> QED  BY <1>1, <1>2, <1>3, <1>4 DEF LoaderIInv

LEMMA RejectKeeps ==
    ASSUME LoaderIInv, NEW section, NEW keys, Reject(About(section, keys)),
           section = "file" \/ Explains(section, keys)
    PROVE  LoaderIInv'
  BY ProblemKeeps DEF About

(* A step that reads nothing.                                              *)
LEMMA StageKeeps ==
    ASSUME LoaderIInv, UNCHANGED <<file, argv, config, error, gateway>>,
           \/ stage = "argv" /\ stage' \in {"file", "exit"}
           \/ stage = "file" /\ stage' = "serial" /\ file \notin {Unreadable, NotMap}
           \/ stage = "checks" /\ stage' = "main" /\ ChecksPassed'
           \/ stage = "main" /\ stage' = "exit"
    PROVE  LoaderIInv'
  <1>1. TypeOK'
    BY SectionsOrdered DEF LoaderIInv, TypeOK, Sections
  <1>2. SectionsSound'
    <2> SUFFICES ASSUME stage' \in {"file", "serial", "main"}, NEW s \in Sections
                 PROVE  /\ stage' # "file" => file' \notin {Unreadable, NotMap}
                        /\ IF Order[stage'] <= Order[s] THEN config'[s] = Defaults[s]
                                                        ELSE AsRead(s, config[s])'
      BY SectionsOrdered DEF SectionsSound, Sections
    <2>1. /\ stage \in DOMAIN Order /\ s \in DOMAIN Defaults
          /\ Order[stage] <= Order[s] <=> Order[stage'] <= Order[s]
          /\ stage = "checks" => Order[stage] > Order.file
      BY SectionsOrdered DEF Sections
    <2> QED  BY <2>1, FileKept DEF LoaderIInv, SectionsSound
  <1>3. ChecksPassed' /\ ComponentsAsConfigured' /\ RejectedForCause'
    BY DEF ChecksPassed, ComponentsAsConfigured, RejectedForCause
  <1> QED  BY <1>1, <1>2, <1>3 DEF LoaderIInv

LEMMA LoadFileKeeps ==
    ASSUME LoaderIInv, LoadFile
    PROVE  LoaderIInv'
  <1>1. CASE file \in {Unreadable, NotMap}
    BY <1>1, RejectKeeps DEF LoadFile
  <1>2. CASE file \notin {Unreadable, NotMap}
    BY <1>2, StageKeeps DEF LoadFile
  <1> QED  BY <1>1, <1>2

-----------------------------------------------------------------------------
(* The lists of checks, and what the checks establish.                     *)

LEMMA Singles == \A a : IsList(<<a>>) /\ Range(<<a>>) = {a}
  BY DEF IsList, Range

LEMMA Pairs == \A a, b : IsList(<<a, b>>) /\ Range(<<a, b>>) = {a, b}
  BY DEF IsList, Range

LEMMA Triples == \A a, b, c : IsList(<<a, b, c>>) /\ Range(<<a, b, c>>) = {a, b, c}
  BY DEF IsList, Range

LEMMA Quadruples == \A a, b, c, d : IsList(<<a, b, c, d>>) /\ Range(<<a, b, c, d>>) = {a, b, c, d}
  BY DEF IsList, Range

LEMMA CheckIs ==
    ASSUME NEW passes, NEW section, NEW keys
    PROVE  /\ Check(passes, section, keys).passes <=> passes
           /\ Check(passes, section, keys).problem.section = section
           /\ Check(passes, section, keys).problem.keys = keys
  BY DEF Check, About

(* The elements of the lists of checks.                                    *)
LEMMA ListsOfChecks ==
    ASSUME NEW c
    PROVE  /\ IsList(SerialChecks(c)) /\ IsList(ModbusChecks(c)) /\ IsList(CanChecks(c))
           /\ IsList(InputChecks(c)) /\ IsList(MqttChecks(c)) /\ IsList(TlsChecks(c))
           /\ IsList(TcpChecks(c)) /\ IsList(HttpChecks(c)) /\ IsList(CacheChecks(c))
           /\ IsList(LogChecks(c))
  <1>1. IsList(SerialChecks(c)) /\ IsList(ModbusChecks(c)) /\ IsList(TlsChecks(c))
    BY Triples DEF SerialChecks, ModbusChecks, TlsChecks
  <1>2. /\ IsList(CanChecks(c)) /\ IsList(HttpChecks(c))
        /\ IsList(CacheChecks(c)) /\ IsList(LogChecks(c))
    BY Pairs DEF CanChecks, HttpChecks, CacheChecks, LogChecks
  <1>3. IsList(InputChecks(c)) /\ IsList(TcpChecks(c)) /\ IsList(MqttChecks(c))
    BY Singles, Quadruples DEF InputChecks, TcpChecks, MqttChecks
  <1> QED  BY <1>1, <1>2, <1>3

LEMMA ListConcat ==
    ASSUME NEW s, NEW t, IsList(s), IsList(t)
    PROVE  IsList(s \o t) /\ Range(s \o t) = Range(s) \cup Range(t)
  <1> DEFINE S == Range(s) \cup Range(t)
  <1>1. s \in Seq(S) /\ t \in Seq(S)
    BY DEF IsList
  <1>2. s \o t \in Seq(S) /\ Range(s \o t) = S
    BY <1>1, RangeConcat
  <1> QED  BY <1>2 DEF IsList

LEMMA AllChecks ==
    ASSUME NEW c
    PROVE  /\ IsList(Checks(c))
           /\ Range(Checks(c)) =
                Range(SerialChecks(c.serial)) \cup Range(ModbusChecks(c.modbus))
                  \cup Range(CanChecks(c.can)) \cup Range(InputChecks(c))
                  \cup Range(MqttChecks(c.mqtt)) \cup Range(TlsChecks(c.tls))
                  \cup Range(TcpChecks(c.tcp)) \cup Range(HttpChecks(c.http))
                  \cup Range(CacheChecks(c.cache)) \cup Range(LogChecks(c.log))
  <1> DEFINE s1 == SerialChecks(c.serial)   t1 == ModbusChecks(c.modbus)
             s2 == s1 \o t1                 t2 == CanChecks(c.can)
             s3 == s2 \o t2                 t3 == InputChecks(c)
             s4 == s3 \o t3                 t4 == MqttChecks(c.mqtt)
             s5 == s4 \o t4                 t5 == TlsChecks(c.tls)
             s6 == s5 \o t5                 t6 == TcpChecks(c.tcp)
             s7 == s6 \o t6                 t7 == HttpChecks(c.http)
             s8 == s7 \o t7                 t8 == CacheChecks(c.cache)
             s9 == s8 \o t8                 t9 == LogChecks(c.log)
  <1>1. /\ IsList(s1) /\ IsList(t1) /\ IsList(t2) /\ IsList(t3) /\ IsList(t4) /\ IsList(t5)
        /\ IsList(t6) /\ IsList(t7) /\ IsList(t8) /\ IsList(t9)
    BY ListsOfChecks
  <1>2. Checks(c) = s9 \o t9
    BY DEF Checks
  <1> HIDE DEF s1, t1, t2, t3, t4, t5, t6, t7, t8, t9
  <1>3. IsList(s2) /\ Range(s2) = Range(s1) \cup Range(t1)
    BY <1>1, ListConcat
  <1> HIDE DEF s2
  <1>4. IsList(s3) /\ Range(s3) = Range(s2) \cup Range(t2)
    BY <1>1, <1>3, ListConcat
  <1> HIDE DEF s3
  <1>5. IsList(s4) /\ Range(s4) = Range(s3) \cup Range(t3)
    BY <1>1, <1>4, ListConcat
  <1> HIDE DEF s4
  <1>6. IsList(s5) /\ Range(s5) = Range(s4) \cup Range(t4)
    BY <1>1, <1>5, ListConcat
  <1> HIDE DEF s5
  <1>7. IsList(s6) /\ Range(s6) = Range(s5) \cup Range(t5)
    BY <1>1, <1>6, ListConcat
  <1> HIDE DEF s6
  <1>8. IsList(s7) /\ Range(s7) = Range(s6) \cup Range(t6)
    BY <1>1, <1>7, ListConcat
  <1> HIDE DEF s7
  <1>9. IsList(s8) /\ Range(s8) = Range(s7) \cup Range(t7)
    BY <1>1, <1>8, ListConcat
  <1> HIDE DEF s8
  <1>10. IsList(s9) /\ Range(s9) = Range(s8) \cup Range(t8)
    BY <1>1, <1>9, ListConcat
  <1> HIDE DEF s9
  <1>11. IsList(s9 \o t9) /\ Range(s9 \o t9) = Range(s9) \cup Range(t9)
    BY <1>1, <1>10, ListConcat
  <1>12. Range(s9 \o t9) = Range(s1) \cup Range(t1) \cup Range(t2) \cup Range(t3) \cup Range(t4)
           \cup Range(t5) \cup Range(t6) \cup Range(t7) \cup Range(t8) \cup Range(t9)
    BY <1>3, <1>4, <1>5, <1>6, <1>7, <1>8, <1>9, <1>10, <1>11
  <1> QED  BY <1>2, <1>11, <1>12 DEF s1, t1, t2, t3, t4, t5, t6, t7, t8, t9

LEMMA PassedIs ==
    ASSUME NEW S, \A check \in S : check.passes, NEW passes, NEW section, NEW keys,
           Check(passes, section, keys) \in S
    PROVE  passes
  BY CheckIs

(* What the checks have established.                                       *)
LEMMA Passed ==
    ASSUME NEW c, \A check \in Range(Checks(c)) : check.passes
    PROVE  /\ Empty \notin Range(c.serial.devices)
           /\ is_supported_baud_rate(c.serial.baud_rate)
           /\ c.modbus.enabled => c.modbus.port # Empty
           /\ c.modbus.enabled => is_supported_baud_rate(c.modbus.baud_rate)
           /\ c.can.enabled => c.can.interface # Empty
           /\ c.serial.devices # <<>> \/ c.modbus.enabled \/ c.can.enabled
           /\ c.tls.enabled => c.tls.ca_file # Empty
           /\ (c.tls.certificate_file = Empty) <=> (c.tls.private_key_file = Empty)
           /\ c.http.enabled => is_valid_http_host(c.http.host)
           /\ c.cache.type \in {"sqlite", "file"}
           /\ is_valid_log_level(c.log.level)
  <1> DEFINE S == Range(Checks(c))
  <1>1. /\ Range(SerialChecks(c.serial)) \subseteq S /\ Range(ModbusChecks(c.modbus)) \subseteq S
        /\ Range(CanChecks(c.can)) \subseteq S /\ Range(InputChecks(c)) \subseteq S
        /\ Range(TlsChecks(c.tls)) \subseteq S /\ Range(HttpChecks(c.http)) \subseteq S
        /\ Range(CacheChecks(c.cache)) \subseteq S /\ Range(LogChecks(c.log)) \subseteq S
    BY AllChecks
  <1> HIDE DEF S
  <1>2. \A check \in S : check.passes
    BY DEF S
  <1>3. Empty \notin Range(c.serial.devices)
    <2>1. Check(Empty \notin Range(c.serial.devices) /\ IsInjective(c.serial.devices),
                "serial", {"devices", "device"}) \in S
      BY <1>1, Triples DEF SerialChecks
    <2> QED  BY <1>2, <2>1, PassedIs, ZenonT(60)
  <1>4. is_supported_baud_rate(c.serial.baud_rate)
    <2>1. Check(is_supported_baud_rate(c.serial.baud_rate), "serial", {"baud_rate"}) \in S
      BY <1>1, Triples DEF SerialChecks
    <2> QED  BY <1>2, <2>1, PassedIs
  <1>5. c.modbus.enabled => c.modbus.port # Empty
    <2>1. Check(c.modbus.enabled => c.modbus.port # Empty, "modbus", {"port"}) \in S
      BY <1>1, Triples DEF ModbusChecks
    <2> QED  BY <1>2, <2>1, PassedIs, ZenonT(60)
  <1>6. c.modbus.enabled => is_supported_baud_rate(c.modbus.baud_rate)
    <2>1. Check(c.modbus.enabled => is_supported_baud_rate(c.modbus.baud_rate),
                "modbus", {"baud_rate", "baudrate"}) \in S
      BY <1>1, Triples DEF ModbusChecks
    <2> QED  BY <1>2, <2>1, PassedIs, ZenonT(60)
  <1>7. c.can.enabled => c.can.interface # Empty
    <2>1. Check(c.can.enabled => c.can.interface # Empty, "can", {"interface"}) \in S
      BY <1>1, Pairs DEF CanChecks
    <2> QED  BY <1>2, <2>1, PassedIs, ZenonT(60)
  <1>8. c.serial.devices # <<>> \/ c.modbus.enabled \/ c.can.enabled
    <2>1. Check(c.serial.devices # <<>> \/ c.modbus.enabled \/ c.can.enabled,
                "serial", {"devices"}) \in S
      BY <1>1, Singles DEF InputChecks
    <2> QED  BY <1>2, <2>1, PassedIs, ZenonT(60)
  <1>9. c.tls.enabled => c.tls.ca_file # Empty
    <2>1. Check(c.tls.enabled => c.tls.ca_file # Empty, "tls", {"enabled"}) \in S
      BY <1>1, Triples DEF TlsChecks
    <2> QED  BY <1>2, <2>1, PassedIs, ZenonT(60)
  <1>10. (c.tls.certificate_file = Empty) <=> (c.tls.private_key_file = Empty)
    <2>1. Check((c.tls.certificate_file = Empty) <=> (c.tls.private_key_file = Empty),
                "tls", {"certificate_file", "private_key_file"}) \in S
      BY <1>1, Triples DEF TlsChecks
    <2> QED  BY <1>2, <2>1, PassedIs, ZenonT(60)
  <1>11. c.http.enabled => is_valid_http_host(c.http.host)
    <2>1. Check(c.http.enabled => is_valid_http_host(c.http.host), "http", {"host"}) \in S
      BY <1>1, Pairs DEF HttpChecks
    <2> QED  BY <1>2, <2>1, PassedIs, ZenonT(60)
  <1>12. c.cache.type \in {"sqlite", "file"}
    <2> DEFINE known == c.cache.type \in {"sqlite", "file"}
    <2>1. Check(known, "cache", {"type"}) \in S
      BY <1>1, Pairs DEF CacheChecks
    <2> HIDE DEF known
    <2>2. known
      BY <1>2, <2>1, PassedIs
    <2> QED  BY <2>2 DEF known
  <1>13. is_valid_log_level(c.log.level)
    <2>1. Check(is_valid_log_level(c.log.level), "log", {"level"}) \in S
      BY <1>1, Pairs DEF LogChecks
    <2> QED  BY <1>2, <2>1, PassedIs
  <1> QED  BY <1>3, <1>4, <1>5, <1>6, <1>7, <1>8, <1>9, <1>10, <1>11, <1>12, <1>13

-----------------------------------------------------------------------------
(* What was read is what the components are made with.                     *)

(* The sections are read when the checks begin.                            *)
LEMMA AllRead ==
    ASSUME LoaderIInv, stage \in {"checks", "main", "running"}
    PROVE  \A section \in Sections : AsRead(section, config[section])
  BY SectionsOrdered DEF LoaderIInv, SectionsSound

(* What the sections hold once they are read.                              *)
LEMMA SettingsRead ==
    ASSUME \A section \in Sections : AsRead(section, config[section])
    PROVE  /\ IsList(config.serial.devices)
           /\ ModbusRead(config.modbus)
           /\ \A key \in DOMAIN Defaults.modbus \ {"baud_rate"} :
                 config.modbus[key] = Setting("modbus", key)
           /\ \A key \in DOMAIN Defaults.mqtt : config.mqtt[key] = Setting("mqtt", key)
           /\ config.cache.type = lowercase(Setting("cache", "type"))
           /\ config.log.level = uppercase(Setting("log", "level"))
  <1>1. AsRead("serial", config.serial) /\ AsRead("modbus", config.modbus)
    BY DEF Sections
  <1>2. IsList(config.serial.devices) /\ ModbusRead(config.modbus)
    BY <1>1 DEF AsRead, SerialRead
  <1>3. \A key \in DOMAIN Defaults.modbus \ {"baud_rate"} :
            config.modbus[key] = Setting("modbus", key)
    BY <1>1 DEF AsRead, Converted
  <1>4. \A key \in DOMAIN Defaults.mqtt : config.mqtt[key] = Setting("mqtt", key)
    BY DEF AsRead, Converted, Sections
  <1>5. /\ config.cache.type = lowercase(Setting("cache", "type"))
        /\ config.log.level = uppercase(Setting("log", "level"))
    BY DEF AsRead, Sections
  <1> QED  BY <1>2, <1>3, <1>4, <1>5

LEMMA PortsRead ==
    ASSUME \A section \in Sections : AsRead(section, config[section])
    PROVE  /\ "port" \in DOMAIN Defaults.mqtt
           /\ \A section \in {"mqtt", "tcp", "http"} :
                 /\ config[section].port = Setting(section, "port")
                 /\ Between(config[section].port, 1, 65535)
  <1>1. "port" \in DOMAIN MqttConfig /\ "port" \in DOMAIN TcpConfig
    BY DEF MqttConfig, TcpConfig
  <1>2. "port" \in DOMAIN HttpConfig
    BY DEF HttpConfig
  <1>3. \A section \in {"mqtt", "tcp", "http"} :
            "port" \in DOMAIN Defaults[section] /\ <<section, "port">> \notin Converted
    BY <1>1, <1>2, DefaultSections DEF Converted
  <1>4. {"mqtt", "tcp", "http"} \subseteq Sections
    BY DEF Sections
  <1> QED  BY <1>3, <1>4 DEF AsRead

(* The settings of the Modbus adapter are the members of config.modbus.    *)
LEMMA ModbusMembers ==
    ASSUME LoaderIInv
    PROVE  /\ Modbus.kind = "modbus"
           /\ \A key \in DOMAIN Defaults.modbus : Modbus[key] = config.modbus[key]
           /\ "port" \in DOMAIN Defaults.modbus /\ "baud_rate" \in DOMAIN Defaults.modbus
  <1>1. DOMAIN config.modbus = DOMAIN ModbusConfig
    BY SectionsOrdered, DefaultSections DEF LoaderIInv, TypeOK, Sections
  <1>2. /\ "kind" \notin DOMAIN ModbusConfig
        /\ "port" \in DOMAIN ModbusConfig /\ "baud_rate" \in DOMAIN ModbusConfig
    BY DEF ModbusConfig
  <1> QED  BY <1>1, <1>2, DefaultSections DEF Modbus

Uarts == [i \in DOMAIN Devices |-> Uart(Devices[i])]

LEMMA GatewayMade ==
    ASSUME run_gateway
    PROVE  /\ gateway'.log_level = parse_log_level(config.log.level)
           /\ gateway'.mqtt = config.mqtt /\ gateway'.tls = config.tls
           /\ gateway'.cache = IF config.cache.type = "sqlite" THEN "SqliteCache" ELSE "FileCache"
           /\ gateway'.tcp = When(config.tcp.enabled, config.tcp)
           /\ gateway'.http = When(config.http.enabled, config.http)
           /\ gateway'.inputs = Uarts \o When(config.modbus.enabled, Modbus)
                                      \o When(config.can.enabled, Can)
  BY DEF run_gateway, Uarts

(* The numbers that go into a Modbus request and the ports: they are in    *)
(* the ranges of the protocol, not only in those of their types.           *)
NumbersInRange ==
    stage = "running" =>
        /\ \A input \in Range(gateway.inputs) :
              input.kind = "modbus" =>
                  /\ Between(input.slave_id, 1, 247) /\ input.function_code \in {3, 4}
                  /\ Between(input.start_address, 0, 65535)
                  /\ Between(input.register_count, 1, 125)
        /\ Between(gateway.mqtt.port, 1, 65535)
        /\ \A endpoint \in Range(gateway.tcp) \cup Range(gateway.http) :
              Between(endpoint.port, 1, 65535)

LEMMA InRange ==
    ASSUME LoaderIInv, stage = "running"
    PROVE  NumbersInRange
  <1> DEFINE numbers == {"slave_id", "function_code", "start_address", "register_count"}
  <1>1. \A section \in Sections : AsRead(section, config[section])
    BY AllRead
  <1>2. ComponentsAsConfigured
    BY DEF LoaderIInv
  <1>3. \A key \in numbers : key \in DOMAIN Defaults.modbus \ {"baud_rate"}
    BY DefaultSections DEF ModbusConfig
  <1>4. \A key \in numbers : config.modbus[key] = Setting("modbus", key)
    BY <1>1, <1>3, SettingsRead
  <1>5. ASSUME NEW input \in Range(gateway.inputs), input.kind = "modbus"
        PROVE  /\ Between(input.slave_id, 1, 247) /\ input.function_code \in {3, 4}
               /\ Between(input.start_address, 0, 65535)
               /\ Between(input.register_count, 1, 125)
    <2>1. \A key \in numbers : input[key] = Setting("modbus", key)
      BY <1>2, <1>3, <1>5 DEF ComponentsAsConfigured
    <2>2. ModbusRead(config.modbus)
      BY <1>1, SettingsRead
    <2> QED  BY <1>4, <2>1, <2>2 DEF ModbusRead
  <1>6. /\ Between(gateway.mqtt.port, 1, 65535)
        /\ \A endpoint \in Range(gateway.tcp) \cup Range(gateway.http) :
              Between(endpoint.port, 1, 65535)
    BY <1>1, <1>2, PortsRead DEF ComponentsAsConfigured
  <1> QED  BY <1>5, <1>6 DEF NumbersInRange

LEMMA ListsOfInputs ==
    ASSUME LoaderIInv, stage = "main"
    PROVE  /\ IsList(Devices)
           /\ Len(argv) < 2 => Empty \notin Range(Devices)
           /\ Devices # <<>> \/ config.modbus.enabled \/ config.can.enabled
  <1>1. /\ IsList(config.serial.devices) /\ Empty \notin Range(config.serial.devices)
        /\ config.serial.devices # <<>> \/ config.modbus.enabled \/ config.can.enabled
    <2>1. IsList(config.serial.devices)
      BY AllRead, SettingsRead
    <2>2. \A check \in Range(Checks(config)) : check.passes
      BY DEF LoaderIInv, ChecksPassed
    <2> QED  BY <2>1, <2>2, Passed
  <1>2. Len(argv) \in Nat
    BY ArgumentsAssumption, LenProperties DEF LoaderIInv, IsList
  <1>3. IsList(<<argv[2]>>) /\ <<argv[2]>> # <<>>
    BY Singles
  <1> QED  BY <1>1, <1>2, <1>3 DEF Devices

LEMMA WhenIs ==
    ASSUME NEW condition, NEW element
    PROVE  /\ IsList(When(condition, element))
           /\ \A x \in Range(When(condition, element)) : condition /\ x = element
           /\ condition => element \in Range(When(condition, element))
  <1>1. CASE condition
    BY <1>1, Singles DEF When
  <1>2. CASE ~condition
    <2>1. When(condition, element) = <<>>
      BY <1>2 DEF When
    <2>2. IsList(<<>>) /\ Range(<<>>) = {}
      BY DEF IsList, Range
    <2> QED  BY <1>2, <2>1, <2>2
  <1> QED  BY <1>1, <1>2

LEMMA Inputs ==
    ASSUME IsList(Devices), NEW inputs,
           inputs = Uarts \o When(config.modbus.enabled, Modbus) \o When(config.can.enabled, Can)
    PROVE  /\ Devices # <<>> \/ config.modbus.enabled \/ config.can.enabled => inputs # <<>>
           /\ \A input \in Range(inputs) :
                 \/ \E path \in Range(Devices) : input = Uart(path)
                 \/ config.modbus.enabled /\ input = Modbus
                 \/ config.can.enabled /\ input = Can
  <1> DEFINE modbus == When(config.modbus.enabled, Modbus)
             can == When(config.can.enabled, Can)
  <1>1. /\ IsList(modbus) /\ \A x \in Range(modbus) : config.modbus.enabled /\ x = Modbus
        /\ config.modbus.enabled => Modbus \in Range(modbus)
    BY WhenIs
  <1>2. /\ IsList(can) /\ \A x \in Range(can) : config.can.enabled /\ x = Can
        /\ config.can.enabled => Can \in Range(can)
    BY WhenIs
  <1>3. /\ IsList(Uarts) /\ \A x \in Range(Uarts) : \E path \in Range(Devices) : x = Uart(path)
        /\ Devices # <<>> => \E x : x \in Range(Uarts)
    <2>1. Devices \in Seq(Range(Devices))
      BY DEF IsList
    <2>2. /\ DOMAIN Devices = 1..Len(Devices) /\ Len(Devices) \in Nat
          /\ Devices # <<>> => Len(Devices) # 0
      BY <2>1, LenProperties
    <2>3. \A i \in 1..Len(Devices) : Uarts[i] = Uart(Devices[i]) /\ Uarts[i] \in Range(Uarts)
      BY <2>2 DEF Uarts, Range
    <2>4. IsList(Uarts)
      <3>1. Uarts \in [1..Len(Devices) -> Range(Uarts)]
        BY <2>2, <2>3 DEF Uarts
      <3> QED  BY <2>2, <3>1 DEF IsList
    <2>5. ASSUME NEW x \in Range(Uarts)
          PROVE  \E path \in Range(Devices) : x = Uart(path)
      BY <2>2 DEF Uarts, Range
    <2> QED  BY <2>2, <2>3, <2>4, <2>5
  <1> HIDE DEF modbus, can
  <1>4. IsList(Uarts \o modbus) /\ Range(Uarts \o modbus) = Range(Uarts) \cup Range(modbus)
    BY <1>1, <1>3, ListConcat
  <1>5. inputs = (Uarts \o modbus) \o can
    BY DEF modbus, can
  <1>6. Range(inputs) = Range(Uarts) \cup Range(modbus) \cup Range(can)
    BY <1>2, <1>4, <1>5, ListConcat
  <1>7. (\E x : x \in Range(inputs)) => inputs # <<>>
    BY DEF Range
  <1> QED  BY <1>1, <1>2, <1>3, <1>6, <1>7

LEMMA run_gatewayKeeps ==
    ASSUME LoaderIInv, run_gateway
    PROVE  LoaderIInv'
  <1>1. stage = "main" /\ stage' = "running" /\ UNCHANGED <<file, argv, config, error>>
    BY DEF run_gateway
  <1>2. /\ gateway'.log_level = parse_log_level(config.log.level)
        /\ gateway'.mqtt = config.mqtt /\ gateway'.tls = config.tls
        /\ gateway'.cache = IF config.cache.type = "sqlite" THEN "SqliteCache" ELSE "FileCache"
        /\ gateway'.tcp = When(config.tcp.enabled, config.tcp)
        /\ gateway'.http = When(config.http.enabled, config.http)
        /\ gateway'.inputs = Uarts \o When(config.modbus.enabled, Modbus)
                                   \o When(config.can.enabled, Can)
    BY GatewayMade
  <1>3. \A check \in Range(Checks(config)) : check.passes
    BY <1>1 DEF LoaderIInv, ChecksPassed
  <1>4. \A section \in Sections : AsRead(section, config[section])
    BY <1>1, AllRead
  <1>5. gateway'.inputs # <<>>
    BY <1>1, <1>2, Inputs, ListsOfInputs
  <1>6. ASSUME NEW input \in Range(gateway'.inputs)
        PROVE  /\ input.port # Empty \/ Len(argv) >= 2
               /\ input.kind # "can" => to_speed(input.baud_rate) # 0
               /\ input.kind = "modbus" =>
                     \A key \in DOMAIN Defaults.modbus \ {"baud_rate"} :
                         input[key] = Setting("modbus", key)
    <2>1. CASE \E path \in Range(Devices) : input = Uart(path)
      <3>1. PICK path \in Range(Devices) : input = Uart(path)
        BY <2>1
      <3>2. input.kind = "uart" /\ input.port = path /\ input.baud_rate = config.serial.baud_rate
        BY <3>1 DEF Uart
      <3>3. path # Empty \/ Len(argv) >= 2
        <4>1. Len(argv) \in Nat
          BY ArgumentsAssumption, LenProperties DEF LoaderIInv, IsList
        <4> QED  BY <1>1, <4>1, ListsOfInputs
      <3>4. to_speed(config.serial.baud_rate) # 0
        BY <1>3, Passed DEF to_speed, is_supported_baud_rate
      <3> QED  BY <3>2, <3>3, <3>4
    <2>2. CASE config.modbus.enabled /\ input = Modbus
      <3>1. config.modbus.port # Empty /\ to_speed(config.modbus.baud_rate) # 0
        BY <1>3, <2>2, Passed DEF to_speed, is_supported_baud_rate
      <3>2. \A key \in DOMAIN Defaults.modbus \ {"baud_rate"} :
                config.modbus[key] = Setting("modbus", key)
        BY <1>4, SettingsRead
      <3> QED  BY <2>2, <3>1, <3>2, ModbusMembers
    <2>3. CASE config.can.enabled /\ input = Can
      <3>1. config.can.interface # Empty
        BY <1>3, <2>3, Passed
      <3>2. input.kind = "can" /\ input.port = config.can.interface
        BY <2>3 DEF Can
      <3> QED  BY <3>1, <3>2
    <2> QED  BY <1>1, <1>2, <2>1, <2>2, <2>3, Inputs, ListsOfInputs, ZenonT(60)
  <1>7. configure_security(gateway'.tls)
    <2>1. /\ config.tls.enabled => config.tls.ca_file # Empty
          /\ (config.tls.certificate_file = Empty) <=> (config.tls.private_key_file = Empty)
      BY <1>3, Passed
    <2> QED  BY <1>2, <2>1 DEF configure_security
  <1>8. \A key \in DOMAIN Defaults.mqtt : gateway'.mqtt[key] = Setting("mqtt", key)
    BY <1>2, <1>4, SettingsRead
  <1>9. \A tcp \in Range(gateway'.tcp) : tcp.port = Setting("tcp", "port")
    <2>1. config.tcp.port = Setting("tcp", "port")
      BY <1>4, PortsRead
    <2> QED  BY <1>2, <2>1, WhenIs
  <1>10. \A http \in Range(gateway'.http) :
             HasAddress(http.host) /\ http.port = Setting("http", "port")
    <2>1. config.http.port = Setting("http", "port")
      BY <1>4, PortsRead
    <2>2. config.http.enabled => HasAddress(config.http.host)
      BY <1>3, Passed DEF HasAddress, is_valid_http_host
    <2> QED  BY <1>2, <2>1, <2>2, WhenIs
  <1>11. gateway'.log_level = uppercase(Setting("log", "level"))
    <2>1. config.log.level = uppercase(Setting("log", "level"))
      BY <1>4, SettingsRead
    <2>2. config.log.level \in {"DEBUG", "INFO", "WARN", "ERROR"}
      BY <1>3, Passed DEF is_valid_log_level
    <2> QED  BY <1>2, <2>1, <2>2 DEF parse_log_level
  <1>12. gateway'.cache = IF lowercase(Setting("cache", "type")) = "file"
                            THEN "FileCache" ELSE "SqliteCache"
    <2>1. config.cache.type = lowercase(Setting("cache", "type"))
      BY <1>4, SettingsRead
    <2>2. config.cache.type \in {"sqlite", "file"}
      BY <1>3, Passed
    <2> QED  BY <1>2, <2>1, <2>2
  <1>13. ComponentsAsConfigured'
    <2>1. argv' = argv /\ \A section, key : Setting(section, key)' = Setting(section, key)
      BY <1>1, FileKept
    <2> QED  BY <1>5, <1>6, <1>7, <1>8, <1>9, <1>10, <1>11, <1>12, <2>1, ZenonT(60)
             DEF ComponentsAsConfigured
  <1>14. TypeOK'
    BY <1>1 DEF LoaderIInv, TypeOK
  <1>15. SectionsSound'
    <2>1. DOMAIN Defaults = Sections
      BY SectionsOrdered
    <2> QED  BY <1>1, <1>4, <2>1, SectionsBehind, FileKept, ZenonT(60) DEF LoaderIInv, SectionsSound
  <1>16. ChecksPassed' /\ RejectedForCause'
    BY <1>1, <1>3 DEF ChecksPassed, RejectedForCause
  <1> QED  BY <1>1, <1>13, <1>14, <1>15, <1>16 DEF LoaderIInv

-----------------------------------------------------------------------------
(* Reading a section.                                                      *)

LEMMA SectionUnread ==
    ASSUME LoaderIInv, NEW section \in Sections, Read(section)
    PROVE  /\ stage = section /\ section \in DOMAIN file
           /\ config[section] = Defaults[section]
           /\ file \in Files \ {Unreadable, NotMap}
  <1>1. /\ section \in DOMAIN Order /\ section \in DOMAIN Defaults
        /\ Order[section] <= Order[section] /\ Order[section] > Order.file
    BY SectionsOrdered
  <1> QED  BY <1>1 DEF LoaderIInv, SectionsSound, Read

LEMMA LoadedRead ==
    ASSUME NEW section \in DOMAIN file, file[section] # Scalar
    PROVE  /\ DOMAIN Loaded(file[section], Defaults[section]) = DOMAIN Defaults[section]
           /\ \A key \in DOMAIN Defaults[section] :
                 Loaded(file[section], Defaults[section])[key] = Setting(section, key)
  BY DEF Loaded, load_if_present, Setting, Keys

LEMMA ThrowsExplained ==
    ASSUME NEW section \in DOMAIN file, NEW keys, Throws(file[section], keys)
    PROVE  Explains(section, keys)
  BY DEF Throws, Explains

(* A value that is not the default is the file's.                          *)
LEMMA ChangeExplained ==
    ASSUME NEW section, NEW key, Setting(section, key) # Defaults[section][key],
           NEW keys, key \in keys, section \in DOMAIN file => file[section] # Scalar
    PROVE  Explains(section, keys) /\ Sets(section, keys)
  BY DEF Setting, Explains, Sets, Keys

LEMMA LoadSerialKeeps ==
    ASSUME LoaderIInv, LoadSerial
    PROVE  LoaderIInv'
  <1> DEFINE node == file.serial
             list == "devices" \in Keys(node)
             single == "device" \in Keys(node) /\ ~list
             read == {"baud_rate", "reconnect_interval_seconds"}
                       \cup (IF list THEN {"devices"} ELSE {"device"})
             loaded == Loaded(node, Defaults.serial)
             members == [loaded EXCEPT !.devices = IF single THEN <<node.device>> ELSE @]
  <1>1. /\ stage = "serial" /\ "serial" \in DOMAIN file /\ config.serial = Defaults.serial
        /\ file \in Files \ {Unreadable, NotMap} /\ "serial" \in Sections
    BY SectionUnread DEF LoadSerial, Sections
  <1>2. CASE list /\ node.devices = NotSequence
    <2>1. Reject(About("serial", {"devices"}))
      BY <1>2 DEF LoadSerial
    <2>2. Explains("serial", {"devices"})
      BY <1>1, <1>2 DEF Explains
    <2> QED  BY <2>1, <2>2, RejectKeeps
  <1>3. CASE ~(list /\ node.devices = NotSequence) /\ Throws(node, read)
    <2>1. Reject(About("serial", read))
      BY <1>3 DEF LoadSerial
    <2>2. Explains("serial", read)
      BY <1>1, <1>3, ThrowsExplained
    <2> QED  BY <2>1, <2>2, RejectKeeps
  <1>4. CASE ~(list /\ node.devices = NotSequence) /\ ~Throws(node, read)
    <2>1. Store("serial", members, "modbus")
      BY <1>1, <1>4 DEF LoadSerial
    <2>2. node # Scalar
      BY <1>4 DEF Throws
    <2>3. /\ DOMAIN loaded = DOMAIN Defaults.serial
          /\ \A key \in DOMAIN Defaults.serial : loaded[key] = Setting("serial", key)
      BY <1>1, <2>2, LoadedRead
    <2>4. "devices" \in DOMAIN Defaults.serial
      BY DefaultSections DEF SerialConfig
    <2>5. /\ DOMAIN members = DOMAIN Defaults.serial
          /\ \A key \in DOMAIN Defaults.serial \ {"devices"} : members[key] = loaded[key]
          /\ members.devices = IF single THEN <<node.device>> ELSE loaded.devices
      BY <2>3, <2>4
    <2>6. SerialRead(members)
      <3>1. CASE single
        BY <1>1, <2>5, <3>1 DEF SerialRead, IsList, Range, Sets
      <3>2. CASE list
        <4>1. loaded.devices = node.devices
          BY <2>4, <3>2 DEF Loaded, load_if_present
        <4>2. node.devices # Mismatch
          BY <1>4, <3>2 DEF Throws
        <4>3. IsList(node.devices)
          BY <1>1, <1>4, <3>2, <4>2, FilesAssumption
        <4> QED  BY <1>1, <2>5, <3>2, <4>1, <4>3 DEF SerialRead, Sets
      <3>3. CASE ~single /\ ~list
        <4>1. loaded.devices = SerialConfig.devices
          BY <2>4, <3>3, DefaultSections DEF Loaded, load_if_present
        <4>2. IsList(SerialConfig.devices) /\ SerialConfig.devices # <<>>
          BY DEF SerialConfig, IsList, Range
        <4> QED  BY <2>5, <3>3, <4>1, <4>2, DefaultSections DEF SerialRead
      <3> QED  BY <3>1, <3>2, <3>3
    <2>7. AsRead("serial", members)
      BY <2>2, <2>3, <2>5, <2>6 DEF AsRead, Converted
    <2>8. "modbus" \in DOMAIN Order /\ Order.modbus = Order.serial + 1
      BY SectionSteps
    <2> QED  BY <1>1, <2>1, <2>5, <2>7, <2>8, StoreKeeps
  <1> QED  BY <1>2, <1>3, <1>4

LEMMA LoadCanKeeps ==
    ASSUME LoaderIInv, LoadCan
    PROVE  LoaderIInv'
  <1> DEFINE loaded == Loaded(file.can, Defaults.can)
  <1>1. /\ stage = "can" /\ "can" \in DOMAIN file /\ config.can = Defaults.can
        /\ "can" \in Sections
    BY SectionUnread DEF LoadCan, Sections
  <1>2. CASE Throws(file.can, DOMAIN Defaults.can)
    <2>1. Reject(About("can", DOMAIN Defaults.can))
      BY <1>1, <1>2 DEF LoadCan
    <2>2. Explains("can", DOMAIN Defaults.can)
      BY <1>1, <1>2, ThrowsExplained
    <2> QED  BY <2>1, <2>2, RejectKeeps
  <1>3. CASE ~Throws(file.can, DOMAIN Defaults.can)
    <2>1. Store("can", loaded, "mqtt")
      BY <1>1, <1>3 DEF LoadCan
    <2>2. file.can # Scalar
      BY <1>3 DEF Throws
    <2>3. /\ DOMAIN loaded = DOMAIN Defaults.can
          /\ \A key \in DOMAIN Defaults.can : loaded[key] = Setting("can", key)
      BY <1>1, <2>2, LoadedRead
    <2>6. AsRead("can", loaded)
      BY <2>2, <2>3 DEF AsRead
    <2>7. "mqtt" \in DOMAIN Order /\ Order.mqtt = Order.can + 1
      BY SectionSteps
    <2> QED  BY <1>1, <2>1, <2>3, <2>6, <2>7, StoreKeeps
  <1> QED  BY <1>2, <1>3

LEMMA LoadTlsKeeps ==
    ASSUME LoaderIInv, LoadTls
    PROVE  LoaderIInv'
  <1> DEFINE loaded == Loaded(file.tls, Defaults.tls)
  <1>1. /\ stage = "tls" /\ "tls" \in DOMAIN file /\ config.tls = Defaults.tls
        /\ "tls" \in Sections
    BY SectionUnread DEF LoadTls, Sections
  <1>2. CASE Throws(file.tls, DOMAIN Defaults.tls)
    <2>1. Reject(About("tls", DOMAIN Defaults.tls))
      BY <1>1, <1>2 DEF LoadTls
    <2>2. Explains("tls", DOMAIN Defaults.tls)
      BY <1>1, <1>2, ThrowsExplained
    <2> QED  BY <2>1, <2>2, RejectKeeps
  <1>3. CASE ~Throws(file.tls, DOMAIN Defaults.tls)
    <2>1. Store("tls", loaded, "tcp")
      BY <1>1, <1>3 DEF LoadTls
    <2>2. file.tls # Scalar
      BY <1>3 DEF Throws
    <2>3. /\ DOMAIN loaded = DOMAIN Defaults.tls
          /\ \A key \in DOMAIN Defaults.tls : loaded[key] = Setting("tls", key)
      BY <1>1, <2>2, LoadedRead
    <2>6. AsRead("tls", loaded)
      BY <2>2, <2>3 DEF AsRead
    <2>7. "tcp" \in DOMAIN Order /\ Order.tcp = Order.tls + 1
      BY SectionSteps
    <2> QED  BY <1>1, <2>1, <2>3, <2>6, <2>7, StoreKeeps
  <1> QED  BY <1>2, <1>3

LEMMA LoadCacheKeeps ==
    ASSUME LoaderIInv, LoadCache
    PROVE  LoaderIInv'
  <1> DEFINE loaded == Loaded(file.cache, Defaults.cache)
             members == [loaded EXCEPT !.type = lowercase(@)]
  <1>1. /\ stage = "cache" /\ "cache" \in DOMAIN file /\ config.cache = Defaults.cache
        /\ "cache" \in Sections
    BY SectionUnread DEF LoadCache, Sections
  <1>2. CASE Throws(file.cache, DOMAIN Defaults.cache)
    <2>1. Reject(About("cache", DOMAIN Defaults.cache))
      BY <1>1, <1>2 DEF LoadCache
    <2>2. Explains("cache", DOMAIN Defaults.cache)
      BY <1>1, <1>2, ThrowsExplained
    <2> QED  BY <2>1, <2>2, RejectKeeps
  <1>3. CASE ~Throws(file.cache, DOMAIN Defaults.cache)
    <2>1. Store("cache", members, "log")
      BY <1>1, <1>3 DEF LoadCache
    <2>2. file.cache # Scalar
      BY <1>3 DEF Throws
    <2>3. /\ DOMAIN loaded = DOMAIN Defaults.cache
          /\ \A key \in DOMAIN Defaults.cache : loaded[key] = Setting("cache", key)
      BY <1>1, <2>2, LoadedRead
    <2>4. "type" \in DOMAIN Defaults.cache
      BY DefaultSections DEF CacheConfig
    <2>5. /\ DOMAIN members = DOMAIN Defaults.cache
          /\ \A key \in DOMAIN Defaults.cache \ {"type"} : members[key] = loaded[key]
          /\ members.type = lowercase(loaded.type)
      BY <2>3, <2>4
    <2>6. AsRead("cache", members)
      BY <2>2, <2>3, <2>4, <2>5 DEF AsRead, Converted
    <2>7. "log" \in DOMAIN Order /\ Order.log = Order.cache + 1
      BY SectionSteps
    <2> QED  BY <1>1, <2>1, <2>5, <2>6, <2>7, StoreKeeps
  <1> QED  BY <1>2, <1>3

LEMMA LoadLogKeeps ==
    ASSUME LoaderIInv, LoadLog
    PROVE  LoaderIInv'
  <1> DEFINE loaded == Loaded(file.log, Defaults.log)
             members == [loaded EXCEPT !.level = uppercase(@)]
  <1>1. /\ stage = "log" /\ "log" \in DOMAIN file /\ config.log = Defaults.log
        /\ "log" \in Sections
    BY SectionUnread DEF LoadLog, Sections
  <1>2. CASE Throws(file.log, DOMAIN Defaults.log)
    <2>1. Reject(About("log", DOMAIN Defaults.log))
      BY <1>1, <1>2 DEF LoadLog
    <2>2. Explains("log", DOMAIN Defaults.log)
      BY <1>1, <1>2, ThrowsExplained
    <2> QED  BY <2>1, <2>2, RejectKeeps
  <1>3. CASE ~Throws(file.log, DOMAIN Defaults.log)
    <2>1. Store("log", members, "checks")
      BY <1>1, <1>3 DEF LoadLog
    <2>2. file.log # Scalar
      BY <1>3 DEF Throws
    <2>3. /\ DOMAIN loaded = DOMAIN Defaults.log
          /\ \A key \in DOMAIN Defaults.log : loaded[key] = Setting("log", key)
      BY <1>1, <2>2, LoadedRead
    <2>4. "level" \in DOMAIN Defaults.log
      BY DefaultSections DEF LogConfig
    <2>5. /\ DOMAIN members = DOMAIN Defaults.log
          /\ \A key \in DOMAIN Defaults.log \ {"level"} : members[key] = loaded[key]
          /\ members.level = uppercase(loaded.level)
      BY <2>3, <2>4
    <2>6. AsRead("log", members)
      BY <2>2, <2>3, <2>4, <2>5 DEF AsRead, Converted
    <2>7. "checks" \in DOMAIN Order /\ Order.checks = Order.log + 1
      BY SectionSteps
    <2> QED  BY <1>1, <2>1, <2>5, <2>6, <2>7, StoreKeeps
  <1> QED  BY <1>2, <1>3

(* A number that is in the range of its test fits the type it is narrowed  *)
(* to.                                                                     *)
LEMMA Narrowed ==
    /\ \A n : Between(n, 1, 247) => n % 2^8 = n
    /\ \A n \in {3, 4} : n % 2^8 = n
    /\ \A n : Between(n, 0, 65535) => n % 2^16 = n
    /\ \A n : Between(n, 1, 65535) => n % 2^16 = n
    /\ \A n : Between(n, 1, 125) => n % 2^16 = n
  BY DEF Between

LEMMA LoadEndpointKeeps ==
    ASSUME LoaderIInv, NEW section \in {"mqtt", "tcp", "http"}, NEW before,
           NEW next \in DOMAIN Order, Order[next] = Order[section] + 1,
           LoadEndpoint(section, before, next)
    PROVE  LoaderIInv'
  <1> DEFINE node == file[section]
             loaded == Loaded(node, Defaults[section])
             members == [loaded EXCEPT !.port = @ % 2^16]
  <1>1. /\ stage = section /\ section \in DOMAIN file /\ config[section] = Defaults[section]
        /\ section \in Sections
    BY SectionUnread DEF LoadEndpoint, Sections
  <1>2. "port" \in DOMAIN Defaults[section] /\ Between(Defaults[section].port, 1, 65535)
    <2>1. MqttConfig.port = 1883 /\ TcpConfig.port = 9000 /\ HttpConfig.port = 8080
      BY DEF MqttConfig, TcpConfig, HttpConfig
    <2>2. "port" \in DOMAIN MqttConfig /\ "port" \in DOMAIN TcpConfig /\ "port" \in DOMAIN HttpConfig
      BY DEF MqttConfig, TcpConfig, HttpConfig
    <2> QED  BY <2>1, <2>2, DefaultSections DEF Between
  <1>3. CASE Throws(node, before \cup {"port"})
    <2>1. Reject(About(section, before \cup {"port"}))
      BY <1>3 DEF LoadEndpoint
    <2>2. Explains(section, before \cup {"port"})
      BY <1>1, <1>3, ThrowsExplained
    <2> QED  BY <2>1, <2>2, RejectKeeps
  <1>4. CASE ~Throws(node, before \cup {"port"})
    <2>1. node # Scalar
      BY <1>4 DEF Throws
    <2>2. /\ DOMAIN loaded = DOMAIN Defaults[section]
          /\ \A key \in DOMAIN Defaults[section] : loaded[key] = Setting(section, key)
      BY <1>1, <2>1, LoadedRead
    <2>3. CASE ~Between(loaded.port, 1, 65535)
      <3>1. Reject(About(section, {"port"}))
        BY <1>1, <1>4, <2>3 DEF LoadEndpoint
      <3>2. Setting(section, "port") # Defaults[section]["port"]
        BY <1>2, <2>2, <2>3
      <3>3. Explains(section, {"port"})
        BY <2>1, <3>2, ChangeExplained
      <3> QED  BY <3>1, <3>3, RejectKeeps
    <2>4. CASE Between(loaded.port, 1, 65535) /\ Throws(node, DOMAIN loaded)
      <3>1. Reject(About(section, DOMAIN loaded))
        BY <1>1, <1>4, <2>4 DEF LoadEndpoint
      <3>2. Explains(section, DOMAIN loaded)
        BY <1>1, <2>4, ThrowsExplained
      <3> QED  BY <3>1, <3>2, RejectKeeps
    <2>5. CASE Between(loaded.port, 1, 65535) /\ ~Throws(node, DOMAIN loaded)
      <3>1. Store(section, members, next)
        BY <1>1, <1>4, <2>5 DEF LoadEndpoint
      <3>2. members.port = loaded.port
        BY <1>2, <2>2, <2>5, Narrowed
      <3>3. /\ DOMAIN members = DOMAIN Defaults[section]
            /\ \A key \in DOMAIN Defaults[section] : members[key] = loaded[key]
        BY <2>2, <3>2
      <3>4. AsRead(section, members)
        BY <2>1, <2>2, <2>5, <3>2, <3>3 DEF AsRead
      <3> QED  BY <1>1, <3>1, <3>3, <3>4, StoreKeeps
    <2> QED  BY <2>3, <2>4, <2>5
  <1> QED  BY <1>3, <1>4

LEMMA LoadEndpointsKeep ==
    ASSUME LoaderIInv, LoadMqtt \/ LoadTcp \/ LoadHttp
    PROVE  LoaderIInv'
  <1>1. /\ "tls" \in DOMAIN Order /\ Order.tls = Order.mqtt + 1
        /\ "http" \in DOMAIN Order /\ Order.http = Order.tcp + 1
        /\ "cache" \in DOMAIN Order /\ Order.cache = Order.http + 1
    BY SectionSteps
  <1>2. CASE LoadMqtt
    BY <1>1, <1>2, LoadEndpointKeeps DEF LoadMqtt
  <1>3. CASE LoadTcp
    BY <1>1, <1>3, LoadEndpointKeeps DEF LoadTcp
  <1>4. CASE LoadHttp
    <2>1. CASE Read("http") /\ file.http \in {Null, Scalar} /\ Reject(About("http", {}))
      <3>1. Explains("http", {})
        BY <2>1 DEF Explains, Read
      <3> QED  BY <2>1, <3>1, RejectKeeps
    <2>2. CASE LoadEndpoint("http", {"enabled", "host"}, "cache")
      BY <1>1, <2>2, LoadEndpointKeeps
    <2> QED  BY <1>4, <2>1, <2>2 DEF LoadHttp
  <1> QED  BY <1>2, <1>3, <1>4

LEMMA LoadModbusKeeps ==
    ASSUME LoaderIInv, LoadModbus
    PROVE  LoaderIInv'
  <1> DEFINE node == file.modbus
             D == Defaults.modbus
             read == DOMAIN D \cup {"baudrate"}
             plain == Loaded(node, D)
             loaded == [plain EXCEPT !.baud_rate = load_if_present(node, "baudrate", @)]
             members == [loaded EXCEPT !.slave_id = @ % 2^8, !.function_code = @ % 2^8,
                                       !.start_address = @ % 2^16,
                                       !.register_count = @ % 2^16]
             numbers == {"slave_id", "function_code", "start_address", "register_count"}
  <1>1. /\ stage = "modbus" /\ "modbus" \in DOMAIN file /\ config.modbus = D
        /\ "modbus" \in Sections
    BY SectionUnread DEF LoadModbus, Sections
  <1>2. /\ numbers \subseteq DOMAIN D /\ "baud_rate" \in DOMAIN D
        /\ Between(D.slave_id, 1, 247) /\ D.function_code \in {3, 4}
        /\ Between(D.start_address, 0, 65535) /\ Between(D.register_count, 1, 125)
    BY DefaultSections DEF ModbusConfig, Between
  <1> HIDE DEF D
  <1>3. CASE Throws(node, read)
    <2>1. Reject(About("modbus", read))
      BY <1>1, <1>3 DEF LoadModbus
    <2>2. Explains("modbus", read)
      BY <1>1, <1>3, ThrowsExplained
    <2> QED  BY <2>1, <2>2, RejectKeeps
  <1>4. CASE ~Throws(node, read)
    <2>1. node # Scalar
      BY <1>4 DEF Throws
    <2>2. /\ DOMAIN plain = DOMAIN D
          /\ \A key \in DOMAIN D : plain[key] = Setting("modbus", key)
      BY <1>1, <2>1, LoadedRead DEF D
    <2>3. /\ DOMAIN loaded = DOMAIN D
          /\ \A key \in DOMAIN D \ {"baud_rate"} : loaded[key] = Setting("modbus", key)
          /\ loaded.baud_rate = load_if_present(node, "baudrate", plain.baud_rate)
      BY <1>2, <2>2
    <2>4. ASSUME NEW key \in numbers, loaded[key] # D[key], NEW keys, key \in keys
          PROVE  Explains("modbus", keys)
      <3>1. Setting("modbus", key) # D[key]
        BY <1>2, <2>3, <2>4
      <3> QED  BY <2>1, <2>4, <3>1, ChangeExplained DEF D
    <2> HIDE DEF loaded
    <2>5. CASE ~Between(loaded.slave_id, 1, 247)
      <3>1. Reject(About("modbus", {"slave_id"}))
        BY <1>1, <1>4, <2>5 DEF LoadModbus, loaded
      <3>2. Explains("modbus", {"slave_id"})
        BY <1>2, <2>4, <2>5
      <3> QED  BY <3>1, <3>2, RejectKeeps
    <2>6. CASE Between(loaded.slave_id, 1, 247) /\ loaded.function_code \notin {3, 4}
      <3>1. Reject(About("modbus", {"function_code"}))
        BY <1>1, <1>4, <2>6 DEF LoadModbus, loaded
      <3>2. Explains("modbus", {"function_code"})
        BY <1>2, <2>4, <2>6
      <3> QED  BY <3>1, <3>2, RejectKeeps
    <2>7. CASE /\ Between(loaded.slave_id, 1, 247) /\ loaded.function_code \in {3, 4}
               /\ \/ ~Between(loaded.start_address, 0, 65535)
                  \/ ~Between(loaded.register_count, 1, 125)
      <3>1. Reject(About("modbus", {"start_address", "register_count"}))
        BY <1>1, <1>4, <2>7 DEF LoadModbus, loaded
      <3>2. Explains("modbus", {"start_address", "register_count"})
        BY <1>2, <2>4, <2>7
      <3> QED  BY <3>1, <3>2, RejectKeeps
    <2>8. CASE /\ Between(loaded.slave_id, 1, 247) /\ loaded.function_code \in {3, 4}
               /\ Between(loaded.start_address, 0, 65535)
               /\ Between(loaded.register_count, 1, 125)
      <3>1. Store("modbus", members, "can")
        BY <1>1, <1>4, <2>8 DEF LoadModbus, loaded
      <3>2. /\ loaded.slave_id % 2^8 = loaded.slave_id
            /\ loaded.function_code % 2^8 = loaded.function_code
            /\ loaded.start_address % 2^16 = loaded.start_address
            /\ loaded.register_count % 2^16 = loaded.register_count
        BY <2>8, Narrowed
      <3>3. DOMAIN members = DOMAIN D /\ \A key \in DOMAIN D : members[key] = loaded[key]
        <4>1. /\ DOMAIN members = DOMAIN loaded
              /\ \A key \in DOMAIN loaded \ numbers : members[key] = loaded[key]
          BY ZenonT(60)
        <4>2. /\ members.slave_id = loaded.slave_id % 2^8
              /\ members.function_code = loaded.function_code % 2^8
              /\ members.start_address = loaded.start_address % 2^16
              /\ members.register_count = loaded.register_count % 2^16
          BY <1>2, <2>3
        <4> QED  BY <2>3, <3>2, <4>1, <4>2, ZenonT(60)
      <3>4. members.baud_rate # D.baud_rate => Sets("modbus", {"baud_rate", "baudrate"})
        <4>1. CASE "baudrate" \in Keys(node)
          BY <1>1, <4>1 DEF Sets
        <4>2. CASE "baudrate" \notin Keys(node)
          <5>1. members.baud_rate = Setting("modbus", "baud_rate")
            BY <1>2, <2>2, <2>3, <3>3, <4>2 DEF load_if_present
          <5> QED  BY <2>1, <5>1, ChangeExplained DEF D
        <4> QED  BY <4>1, <4>2
      <3> HIDE DEF members
      <3>5. ModbusRead(members)
        BY <1>2, <2>8, <3>3, <3>4 DEF ModbusRead, D
      <3>6. AsRead("modbus", members)
        BY <2>1, <2>3, <3>3, <3>5, ModbusAsRead DEF D
      <3>7. "can" \in DOMAIN Order /\ Order.can = Order.modbus + 1
        BY SectionSteps
      <3> QED  BY <1>1, <3>1, <3>3, <3>6, <3>7, StoreKeeps DEF D
    <2> QED  BY <2>5, <2>6, <2>7, <2>8
  <1> QED  BY <1>3, <1>4

-----------------------------------------------------------------------------
(* What a check that fails complains of is the file's, when the check      *)
(* passes with the defaults of its keys.                                   *)
Justified(check) == Explains(check.problem.section, check.problem.keys)

LEMMA FailureJustified ==
    ASSUME NEW passes, NEW section, NEW keys, ~Check(passes, section, keys).passes,
           ~Sets(section, keys) => passes
    PROVE  Justified(Check(passes, section, keys))
  <1>1. Sets(section, keys)
    BY CheckIs
  <1>2. Explains(section, keys)
    BY <1>1 DEF Sets, Explains
  <1> QED  BY <1>2, CheckIs DEF Justified

LEMMA SerialChecksJustified ==
    ASSUME NEW c, AsRead("serial", c), NEW check \in Range(SerialChecks(c)), ~check.passes
    PROVE  Justified(check)
  <1>1. /\ {"baud_rate", "reconnect_interval_seconds"} \subseteq DOMAIN Defaults.serial
        /\ Defaults.serial.baud_rate = 115200
        /\ Defaults.serial.reconnect_interval_seconds = 2
    BY DefaultSections DEF SerialConfig
  <1>2. ~Sets("serial", {"devices", "device"}) =>
            (Empty \notin Range(c.devices) /\ IsInjective(c.devices))
    <2>1. ~Sets("serial", {"devices", "device"}) => c.devices = SerialConfig.devices
      BY ConvertedNotSet
    <2>2. Empty \notin Range(SerialConfig.devices) /\ IsInjective(SerialConfig.devices)
      BY TextNotEmpty, Singles DEF SerialConfig, IsInjective
    <2> QED  BY <2>1, <2>2
  <1>3. ~Sets("serial", {"baud_rate"}) =>
            (is_supported_baud_rate(c.baud_rate))
    BY <1>1, NotSet DEF Converted, is_supported_baud_rate
  <1>4. ~Sets("serial", {"reconnect_interval_seconds"}) =>
            (c.reconnect_interval_seconds >= 1)
    BY <1>1, NotSet DEF Converted
  <1>5. \/ check = Check(Empty \notin Range(c.devices) /\ IsInjective(c.devices),
                       "serial", {"devices", "device"})
         \/ check = Check(is_supported_baud_rate(c.baud_rate), "serial", {"baud_rate"})
         \/ check = Check(c.reconnect_interval_seconds >= 1, "serial", {"reconnect_interval_seconds"})
    BY Triples DEF SerialChecks
  <1> QED  BY <1>2, <1>3, <1>4, <1>5, FailureJustified, ZenonT(60)

LEMMA ModbusChecksJustified ==
    ASSUME NEW c, AsRead("modbus", c), NEW check \in Range(ModbusChecks(c)), ~check.passes
    PROVE  Justified(check)
  <1>1. /\ {"port", "poll_interval_ms", "response_timeout_ms"} \subseteq DOMAIN Defaults.modbus
        /\ Defaults.modbus.port = "/dev/ttyUSB0"
        /\ Defaults.modbus.poll_interval_ms = 1000
        /\ Defaults.modbus.response_timeout_ms = 500
    BY DefaultSections DEF ModbusConfig
  <1>2. ~Sets("modbus", {"port"}) =>
            (c.enabled => c.port # Empty)
    BY <1>1, NotSet, TextNotEmpty DEF Converted
  <1>3. ~Sets("modbus", {"baud_rate", "baudrate"}) =>
            (c.enabled => is_supported_baud_rate(c.baud_rate))
    <2>1. ~Sets("modbus", {"baud_rate", "baudrate"}) => c.baud_rate = 115200
      BY ConvertedNotSet
    <2> QED  BY <2>1 DEF is_supported_baud_rate
  <1>4. ~Sets("modbus", {"poll_interval_ms", "response_timeout_ms"}) =>
            (c.enabled => c.poll_interval_ms >= 1 /\ c.response_timeout_ms >= 1)
    BY <1>1, NotSet DEF Converted
  <1>5. \/ check = Check(c.enabled => c.port # Empty, "modbus", {"port"})
         \/ check = Check(c.enabled => is_supported_baud_rate(c.baud_rate),
                          "modbus", {"baud_rate", "baudrate"})
         \/ check = Check(c.enabled => c.poll_interval_ms >= 1 /\ c.response_timeout_ms >= 1,
                          "modbus", {"poll_interval_ms", "response_timeout_ms"})
    BY Triples DEF ModbusChecks
  <1> QED  BY <1>2, <1>3, <1>4, <1>5, FailureJustified, ZenonT(60)

LEMMA CanChecksJustified ==
    ASSUME NEW c, AsRead("can", c), NEW check \in Range(CanChecks(c)), ~check.passes
    PROVE  Justified(check)
  <1>1. /\ {"interface", "heartbeat_timeout_seconds"} \subseteq DOMAIN Defaults.can
        /\ Defaults.can.interface = "can0"
        /\ Defaults.can.heartbeat_timeout_seconds = 5
    BY DefaultSections DEF CanConfig
  <1>2. ~Sets("can", {"interface"}) =>
            (c.enabled => c.interface # Empty)
    BY <1>1, NotSet, TextNotEmpty DEF Converted
  <1>3. ~Sets("can", {"heartbeat_timeout_seconds"}) =>
            (c.heartbeat_timeout_seconds >= 1)
    BY <1>1, NotSet DEF Converted
  <1>4. \/ check = Check(c.enabled => c.interface # Empty, "can", {"interface"})
         \/ check = Check(c.heartbeat_timeout_seconds >= 1, "can", {"heartbeat_timeout_seconds"})
    BY Pairs DEF CanChecks
  <1> QED  BY <1>2, <1>3, <1>4, FailureJustified, ZenonT(60)

LEMMA MqttChecksJustified ==
    ASSUME NEW c, AsRead("mqtt", c), NEW check \in Range(MqttChecks(c)), ~check.passes
    PROVE  Justified(check)
  <1>1. /\ {"host", "topic_prefix", "cache_retry_interval_seconds", "password"}
             \subseteq DOMAIN Defaults.mqtt
        /\ Defaults.mqtt.host = "localhost"
        /\ Defaults.mqtt.topic_prefix = "sensor"
        /\ Defaults.mqtt.cache_retry_interval_seconds = 5
        /\ Defaults.mqtt.password = Empty
    BY DefaultSections DEF MqttConfig
  <1>2. ~Sets("mqtt", {"host"}) =>
            (c.host # Empty)
    BY <1>1, NotSet, TextNotEmpty DEF Converted
  <1>3. ~Sets("mqtt", {"topic_prefix"}) =>
            (c.topic_prefix # Empty)
    BY <1>1, NotSet, TextNotEmpty DEF Converted
  <1>4. ~Sets("mqtt", {"cache_retry_interval_seconds"}) =>
            (c.cache_retry_interval_seconds >= 1)
    BY <1>1, NotSet DEF Converted
  <1>5. ~Sets("mqtt", {"password"}) =>
            (c.username = Empty => c.password = Empty)
    BY <1>1, NotSet DEF Converted
  <1>6. \/ check = Check(c.host # Empty, "mqtt", {"host"})
         \/ check = Check(c.topic_prefix # Empty, "mqtt", {"topic_prefix"})
         \/ check = Check(c.cache_retry_interval_seconds >= 1, "mqtt", {"cache_retry_interval_seconds"})
         \/ check = Check(c.username = Empty => c.password = Empty, "mqtt", {"password"})
    BY Quadruples DEF MqttChecks
  <1> QED  BY <1>2, <1>3, <1>4, <1>5, <1>6, FailureJustified, ZenonT(60)

LEMMA TlsChecksJustified ==
    ASSUME NEW c, AsRead("tls", c), NEW check \in Range(TlsChecks(c)), ~check.passes
    PROVE  Justified(check)
  <1>1. /\ {"enabled", "certificate_file", "private_key_file", "insecure"} \subseteq DOMAIN Defaults.tls
        /\ Defaults.tls.enabled = FALSE
        /\ Defaults.tls.certificate_file = Empty
        /\ Defaults.tls.private_key_file = Empty
        /\ Defaults.tls.insecure = FALSE
    BY DefaultSections DEF MqttTlsConfig
  <1>2. ~Sets("tls", {"enabled"}) =>
            (c.enabled => c.ca_file # Empty)
    BY <1>1, NotSet DEF Converted
  <1>3. ~Sets("tls", {"certificate_file", "private_key_file"}) =>
            ((c.certificate_file = Empty) <=> (c.private_key_file = Empty))
    BY <1>1, NotSet DEF Converted
  <1>4. ~Sets("tls", {"insecure"}) =>
            (c.insecure => c.enabled)
    BY <1>1, NotSet DEF Converted
  <1>5. \/ check = Check(c.enabled => c.ca_file # Empty, "tls", {"enabled"})
         \/ check = Check((c.certificate_file = Empty) <=> (c.private_key_file = Empty),
                          "tls", {"certificate_file", "private_key_file"})
         \/ check = Check(c.insecure => c.enabled, "tls", {"insecure"})
    BY Triples DEF TlsChecks
  <1> QED  BY <1>2, <1>3, <1>4, <1>5, FailureJustified, ZenonT(60)

LEMMA TcpChecksJustified ==
    ASSUME NEW c, AsRead("tcp", c), NEW check \in Range(TcpChecks(c)), ~check.passes
    PROVE  Justified(check)
  <1>1. /\ {"host"} \subseteq DOMAIN Defaults.tcp
        /\ Defaults.tcp.host = "127.0.0.1"
    BY DefaultSections DEF TcpConfig
  <1>2. ~Sets("tcp", {"host"}) =>
            (c.enabled => c.host # Empty)
    BY <1>1, NotSet, TextNotEmpty DEF Converted
  <1>3. \/ check = Check(c.enabled => c.host # Empty, "tcp", {"host"})
    BY Singles DEF TcpChecks
  <1> QED  BY <1>2, <1>3, FailureJustified, ZenonT(60)

LEMMA HttpChecksJustified ==
    ASSUME NEW c, AsRead("http", c), NEW check \in Range(HttpChecks(c)), ~check.passes
    PROVE  Justified(check)
  <1>1. /\ {"host"} \subseteq DOMAIN Defaults.http
        /\ Defaults.http.host = "127.0.0.1"
    BY DefaultSections DEF HttpConfig
  <1>2. ~Sets("http", {"host"}) =>
            (c.host # Empty)
    BY <1>1, NotSet, TextNotEmpty DEF Converted
  <1>3. ~Sets("http", {"host"}) =>
            (c.enabled => is_valid_http_host(c.host))
    BY <1>1, NotSet, IPv4Assumption, DefaultSections DEF Converted, is_valid_http_host
  <1>4. \/ check = Check(c.host # Empty, "http", {"host"})
         \/ check = Check(c.enabled => is_valid_http_host(c.host), "http", {"host"})
    BY Pairs DEF HttpChecks
  <1> QED  BY <1>2, <1>3, <1>4, FailureJustified, ZenonT(60)

LEMMA CacheChecksJustified ==
    ASSUME NEW c, AsRead("cache", c), NEW check \in Range(CacheChecks(c)), ~check.passes
    PROVE  Justified(check)
  <1>1. /\ {"path"} \subseteq DOMAIN Defaults.cache
        /\ Defaults.cache.path = "data/pending_messages.db"
    BY DefaultSections DEF CacheConfig
  <1>2. ~Sets("cache", {"path"}) =>
            (c.path # Empty)
    BY <1>1, NotSet, TextNotEmpty DEF Converted
  <1>3. ~Sets("cache", {"type"}) =>
            (c.type \in {"sqlite", "file"})
    <2>1. Defaults.cache.type = "sqlite" /\ lowercase("sqlite") = "sqlite"
      BY DefaultSections DEF CacheConfig, lowercase
    <2>2. c.type = lowercase(Setting("cache", "type"))
      BY AsReadIs
    <2> QED  BY <2>1, <2>2, NotSet, ZenonT(60)
  <1>4. \/ check = Check(c.path # Empty, "cache", {"path"})
         \/ check = Check(c.type \in {"sqlite", "file"}, "cache", {"type"})
    BY Pairs DEF CacheChecks
  <1> QED  BY <1>2, <1>3, <1>4, FailureJustified, ZenonT(60)

LEMMA LogChecksJustified ==
    ASSUME NEW c, AsRead("log", c), NEW check \in Range(LogChecks(c)), ~check.passes
    PROVE  Justified(check)
  <1>1. /\ {"path"} \subseteq DOMAIN Defaults.log
        /\ Defaults.log.path = "logs/gateway.log"
    BY DefaultSections DEF LogConfig
  <1>2. ~Sets("log", {"path"}) =>
            (c.path # Empty)
    BY <1>1, NotSet, TextNotEmpty DEF Converted
  <1>3. ~Sets("log", {"level"}) =>
            (is_valid_log_level(c.level))
    <2>1. Defaults.log.level = "DEBUG" /\ uppercase("DEBUG") = "DEBUG"
      BY DefaultSections DEF LogConfig, uppercase
    <2>2. c.level = uppercase(Setting("log", "level"))
      BY AsReadIs
    <2> QED  BY <2>1, <2>2, NotSet, ZenonT(60) DEF is_valid_log_level
  <1>4. \/ check = Check(c.path # Empty, "log", {"path"})
         \/ check = Check(is_valid_log_level(c.level), "log", {"level"})
    BY Pairs DEF LogChecks
  <1> QED  BY <1>2, <1>3, <1>4, FailureJustified, ZenonT(60)

LEMMA InputChecksJustified ==
    ASSUME NEW c, AsRead("serial", c.serial), NEW check \in Range(InputChecks(c)), ~check.passes
    PROVE  Justified(check)
  <1>1. ~Sets("serial", {"devices"}) =>
            (c.serial.devices # <<>> \/ c.modbus.enabled \/ c.can.enabled)
    BY ConvertedNotSet
  <1>2. check = Check(c.serial.devices # <<>> \/ c.modbus.enabled \/ c.can.enabled,
                      "serial", {"devices"})
    BY Singles DEF InputChecks
  <1> QED  BY <1>1, <1>2, FailureJustified, ZenonT(60)

LEMMA ValidateKeeps ==
    ASSUME LoaderIInv, Validate
    PROVE  LoaderIInv'
  <1>1. stage = "checks"
    BY DEF Validate
  <1>2. ASSUME NEW first \in DOMAIN Checks(config),
               ~Checks(config)[first].passes, Reject(Checks(config)[first].problem)
        PROVE  LoaderIInv'
    <2> DEFINE check == Checks(config)[first]
    <2>1. check \in Range(Checks(config)) /\ ~check.passes
      BY <1>2 DEF Range
    <2>2. /\ AsRead("serial", config.serial) /\ AsRead("modbus", config.modbus)
          /\ AsRead("can", config.can) /\ AsRead("mqtt", config.mqtt)
          /\ AsRead("tls", config.tls) /\ AsRead("tcp", config.tcp)
          /\ AsRead("http", config.http) /\ AsRead("cache", config.cache)
          /\ AsRead("log", config.log)
      BY <1>1, AllRead DEF Sections
    <2>3. Justified(check)
      BY <2>1, <2>2, AllChecks, SerialChecksJustified, ModbusChecksJustified,
         CanChecksJustified, InputChecksJustified, MqttChecksJustified, TlsChecksJustified,
         TcpChecksJustified, HttpChecksJustified, CacheChecksJustified, LogChecksJustified,
         ZenonT(60)
    <2> QED  BY <1>2, <2>3, ProblemKeeps DEF Justified
  <1>3. ASSUME \A check \in Range(Checks(config)) : check.passes, stage' = "main",
               UNCHANGED <<file, argv, config, error, gateway>>
        PROVE  LoaderIInv'
    <2>1. ChecksPassed'
      BY <1>3, ZenonT(60) DEF ChecksPassed
    <2> QED  BY <1>1, <1>3, <2>1, StageKeeps
  <1> QED  BY <1>2, <1>3 DEF Validate

-----------------------------------------------------------------------------
(* Every step keeps the invariant.                                         *)

LEMMA NextKeeps ==
    ASSUME LoaderIInv, [Next]_vars
    PROVE  LoaderIInv'
  <1>1. CASE Version
    BY <1>1, StageKeeps DEF Version
  <1>2. CASE ChooseFile
    BY <1>2, StageKeeps DEF ChooseFile
  <1>3. CASE RunGatewayFails
    BY <1>3, StageKeeps DEF RunGatewayFails
  <1>4. CASE UNCHANGED vars
    BY <1>4, StutterKeeps DEF vars
  <1>5. CASE Finished
    BY <1>4, <1>5 DEF Finished
  <1> QED  BY <1>1, <1>2, <1>3, <1>4, <1>5, LoadFileKeeps, SkipSectionKeeps,
              LoadSerialKeeps, LoadModbusKeeps, LoadCanKeeps, LoadTlsKeeps, LoadEndpointsKeep,
              LoadCacheKeeps, LoadLogKeeps, ValidateKeeps, run_gatewayKeeps DEF Next

(* Whatever files and command lines there are, the loader keeps its        *)
(* invariant: a section that was read holds the settings of the file, one  *)
(* still ahead holds the defaults, and no configuration gets past the      *)
(* checks that fails one of them.                                          *)
THEOREM LoaderInvariance == Spec => []LoaderIInv
  BY InitInv, NextKeeps, PTL DEF Spec

(* A gateway that runs has inputs, its components accept what              *)
(* load_gateway_config() let through, and what run_gateway() gave them is  *)
(* what the file says, for every file: no number changes when it is        *)
(* narrowed and no text falls through to a default.                        *)
THEOREM ComponentsConfigured == Spec => []ComponentsAsConfigured
  <1>1. LoaderIInv => ComponentsAsConfigured
    BY DEF LoaderIInv
  <1> QED  BY <1>1, LoaderInvariance, PTL

(* Whatever the file says, a rejection has its cause in it: it sets one of *)
(* the keys the exception is about, or the section is no map.  So the      *)
(* defaults of gateway_config.h pass every check of load_gateway_config(), *)
(* in every combination with settings that are right.                      *)
THEOREM RejectionsCaused == Spec => []RejectedForCause
  <1>1. LoaderIInv => RejectedForCause
    BY DEF LoaderIInv
  <1> QED  BY <1>1, LoaderInvariance, PTL

(* What reaches ModbusRtuAdapter, the publishers and HttpServer is in      *)
(* range, though the tests of load_gateway_config() look at int values     *)
(* that are narrowed afterwards and the request is sent much later.        *)
THEOREM RunningInRange == Spec => []NumbersInRange
  <1>1. LoaderIInv => NumbersInRange
    BY InRange DEF NumbersInRange
  <1> QED  BY <1>1, LoaderInvariance, PTL
=============================================================================
