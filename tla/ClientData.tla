------------------------------ MODULE ClientData ------------------------------
(***************************************************************************)
(* The way of a row of values from the buffers of the msmonitor_cs server  *)
(* to the vector mValues of a client: the code of the wanted values, its   *)
(* eight characters on the wire, the numbers the server reads from it, the *)
(* answer and what the client takes from it.  A 64 bit number is the set   *)
(* of its one bits.                                                        *)
(***************************************************************************)
EXTENDS Integers, Sequences, FiniteSets, SequencesExt

\* enum DATA: value v of the enumeration is Data[v + 1].
Data == <<"X",
  "PowerCpu0", "PowerCpu1", "PowerGpu", "PowerFpga", "PowerMic", "PowerSystem",
  "TempCpu0", "TempCpu1", "TempGpu", "TempFpgaM", "TempFpgaI", "TempMicDie",
  "TempSystem",
  "ClockCpu0", "ClockCpu1", "ClockGpuCore", "ClockGpuMem", "ClockMicCore",
  "ClockMicMem",
  "UtilCpu", "UtilGpuCore", "UtilGpuMem", "UtilFpga", "UtilMic",
  "MemoryCpu", "SwapCpu", "MemoryGpu", "MemoryMic">>
VALUESIZE == Len(Data)

Numbers == [name \in ToSet(Data) |-> CHOOSE v \in 0 .. VALUESIZE - 1 : Data[v + 1] = name]
Number(name) == Numbers[name]

\* The elements of a sequence that are in a set, in their order.
Kept(s, S) ==
  LET kept[i \in 0 .. Len(s)] ==
        IF i = 0 THEN <<>>
        ELSE IF s[i] \in S THEN Append(kept[i - 1], s[i]) ELSE kept[i - 1]
  IN kept[Len(s)]

AddAll == [i \in 1 .. VALUESIZE |-> i - 1]

\* The bits of a number of 0 .. 255, moved up by s in a 32 bit integer that
\* is then widened with its sign.
BitsOf(n) == {b \in 0 .. 7 : (n \div 2^b) % 2 = 1}
Widened(bits) == IF 31 \in bits THEN bits \cup (32 .. 63) ELSE bits
Shifted(bits, s) == Widened({b + s : b \in {c \in bits : c + s < 32}})

CreateDataCode(values) == UNION {Shifted({0}, values[i]) : i \in DOMAIN values}

\* Eight characters, each 20 more than its byte of the code.
Byte(code, i) ==
  LET Bit(b) == IF 8 * i + b \in code THEN 2^b ELSE 0
  IN Bit(0) + Bit(1) + Bit(2) + Bit(3) + Bit(4) + Bit(5) + Bit(6) + Bit(7)
RegMsg(code) == [i \in 1 .. 8 |-> (Byte(code, i - 1) + 20) % 256]

\* The characters are signed: the bits of char - 20 as an int, moved up by
\* 8 * i (the machine takes the distance modulo 32).
Signed(char) == IF char < 128 THEN char ELSE char - 256
IntBits(n) == IF n >= 0 THEN BitsOf(n) ELSE BitsOf(n + 256) \cup (8 .. 31)
CheckData(msg) ==
  UNION {Shifted(IntBits(Signed(msg[i]) - 20), (8 * (i - 1)) % 32) : i \in 1 .. 8}

\* tmp is an int: of the masked code only the bits below its sign count.
ExtractData(code) == Kept([i \in 1 .. 31 |-> i - 1], code)

\* The last value of the buffer for each known number, in their order.
GetValues(req, last) ==
  LET known == Kept(req, 0 .. VALUESIZE - 1)
  IN [i \in DOMAIN known |-> last[Data[known[i] + 1]]]

\* The answer of the server: the wanted values, then a string for each process on
\* the FPGA and the GPU, then one for each application that has signalled.
CreateDataAnswer(wanted, last, processes, applications) ==
  GetValues(wanted, last) \o processes \o applications

\* The first 29 entries are taken for values, the rest for strings.
GetData(answer) ==
  LET n == IF Len(answer) < 29 THEN Len(answer) ELSE 29
  IN [values |-> SubSeq(answer, 1, n), strings |-> SubSeq(answer, n + 1, Len(answer))]

\* The code the server reads from a client that registers for all values, the
\* numbers it extracts from it, what this client gets of the last values, and
\* the strings of applications among the rest.
Registered == CheckData(RegMsg(CreateDataCode(AddAll)))
Wanted == ExtractData(Registered)
Received(last, processes, applications) ==
  GetData(CreateDataAnswer(Wanted, last, processes, applications))
ExtractAppSignals(strings) == Kept(strings, {s \in ToSet(strings) : s.kind \in {"y", "z"}})
=============================================================================
