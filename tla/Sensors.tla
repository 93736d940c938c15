------------------------------ MODULE Sensors ------------------------------
(***************************************************************************)
(* The humidity and temperature sensor HTS221 and the pressure sensor      *)
(* LPS25H (src/sensehat/hts221.c, lps25h.c) as env_task uses them: the     *)
(* registers one transfer after another, any of which may fail or be the   *)
(* last of a stopped task, and the readings in integer arithmetic.         *)
(*                                                                         *)
(* The devices are external: a device holds its calibration and packs it   *)
(* into registers of eight bits as its data sheet says and the driver      *)
(* expects.                                                                *)
(***************************************************************************)
EXTENDS Integers, Sequences

CONSTANTS
  Devices,  \* calibrations: records of h0, h1 (half percents), t0, t1
            \* (eighths of a degree) and h0_out, h1_out, t0_out, t1_out
  Raws,     \* raw humidities and temperatures that are read
  Pressures \* raw pressures that are read

VARIABLES
  device,   \* the calibration the HTS221 was made with
  calib,    \* calib
  at,       \* the next transfer of the initialization, "ready" or "off"
  reading   \* {the last reading: its kind, the raw value, the result}

vars == <<device, calib, at, reading>>

\* Division of C: towards zero.  d is not 0.
Quotient(n, d) ==
  LET q == (IF n < 0 THEN -n ELSE n) \div (IF d < 0 THEN -d ELSE d)
  IN  IF (n < 0) = (d < 0) THEN q ELSE -q

\* The two's complement of a value in so many bytes, lowest first, and back.
Bytes2(v) == <<v % 256, (v \div 256) % 256>>
Bytes3(v) == <<v % 256, (v \div 256) % 256, (v \div 65536) % 256>>

\* hts221_read_reg16: the cast to int16_t.
Int16(b) == LET u == b[2] * 256 + b[1] IN IF u >= 32768 THEN u - 65536 ELSE u

\* lps25h_read_pressure_raw: the sign is bit 23.
Int24(b) == LET u == b[3] * 65536 + b[2] * 256 + b[1]
            IN  IF u >= 8388608 THEN u - 16777216 ELSE u

\* The registers of the device.
Register(name) ==
  CASE name = "h0_x2" -> device.h0
    [] name = "h1_x2" -> device.h1
    [] name = "t0_x8_lsb" -> device.t0 % 256
    [] name = "t1_x8_lsb" -> device.t1 % 256
    [] name = "t1_t0_msb" -> (device.t1 \div 256) * 4 + device.t0 \div 256
    [] name \in {"h0_out", "h1_out", "t0_out", "t1_out"} -> Bytes2(device[name])

NoCalib ==
  [h0_centi_percent |-> 0, h1_centi_percent |-> 0, h0_out |-> 0, h1_out |-> 0,
   t0_centi_c |-> 0, t1_centi_c |-> 0, t0_out |-> 0, t1_out |-> 0, valid |-> FALSE]

Init ==
  /\ device \in Devices
  /\ calib = NoCalib
  /\ at = "off"
  /\ reading = {}

-----------------------------------------------------------------------------
\* The transfers of lps25h_init and hts221_init, in their order.
Transfers ==
  <<"lps_who", "lps_ctrl", "who", "av_conf", "ctrl", "h0_x2", "h1_x2", "h0_out", "h1_out",
    "t0_x8_lsb", "t1_x8_lsb", "t1_t0_msb", "t0_out", "t1_out", "ready">>

After(t) == Transfers[1 + CHOOSE i \in 1 .. Len(Transfers) - 1 : Transfers[i] = t]

\* env_task begins, again perhaps.
InitStarts ==
  /\ at = "off"
  /\ at' = Transfers[1]
  /\ reading' = {}
  /\ UNCHANGED <<device, calib>>

\* (t1_t0_msb & 0x0C) << 6, in units of 256.
HighBitsT1(msb) == (msb \div 4) % 4
HighBitsT0(msb) == msb % 4

\* What is kept of the answer to transfer t.
Calibrated(t) ==
  CASE t = "who" -> [calib EXCEPT !.valid = FALSE]
    [] t = "h1_x2" ->
         [calib EXCEPT !.h0_centi_percent = (Register("h0_x2") * 100) \div 2,
                       !.h1_centi_percent = (Register("h1_x2") * 100) \div 2]
    [] t = "t1_t0_msb" ->
         LET msb == Register("t1_t0_msb")
         IN  [calib EXCEPT
                !.t0_centi_c = ((HighBitsT0(msb) * 256 + Register("t0_x8_lsb")) * 100) \div 8,
                !.t1_centi_c = ((HighBitsT1(msb) * 256 + Register("t1_x8_lsb")) * 100) \div 8]
    [] t \in {"h0_out", "h1_out", "t0_out"} -> [calib EXCEPT ![t] = Int16(Register(t))]
    [] t = "t1_out" ->
         [calib EXCEPT !.t1_out = Int16(Register("t1_out")),
                       !.valid = (Int16(Register("t1_out")) # calib.t0_out)]
    [] t \in {"lps_who", "lps_ctrl", "av_conf", "ctrl", "h0_x2", "t0_x8_lsb", "t1_x8_lsb"} -> calib

\* hts221_read_calibration refuses two points with the same raw value.
Refused(t, c) ==
  \/ t = "h1_out" /\ c.h1_out = c.h0_out
  \/ t = "t1_out" /\ c.t1_out = c.t0_out

Transfer ==
  /\ at \notin {"off", "ready"}
  /\ calib' = Calibrated(at)
  /\ at' = IF Refused(at, calib') THEN "off" ELSE After(at)
  /\ UNCHANGED <<device, reading>>

\* A transfer fails, another chip answers, or the task is stopped.
Abandon ==
  /\ at # "off"
  /\ at' = "off"
  /\ calib' = IF at = "who" THEN [calib EXCEPT !.valid = FALSE] ELSE calib
  /\ reading' = {}
  /\ UNCHANGED device

-----------------------------------------------------------------------------
\* Faulty variant: rounds down, not towards zero.
InterpolateFloor(lo, hi, lo_out, hi_out, raw) ==
  LET numerator   == (raw - lo_out) * (hi - lo)
      denominator == hi_out - lo_out
  IN  lo + (IF denominator < 0 THEN (-numerator) \div (-denominator)
                               ELSE numerator \div denominator)

\* The arithmetic both readings share.
Interpolate(lo, hi, lo_out, hi_out, raw) ==
  lo + Quotient((raw - lo_out) * (hi - lo), hi_out - lo_out)

Clip(v) == IF v < 0 THEN 0 ELSE IF v > 10000 THEN 10000 ELSE v

Report(kind, raw, result) ==
  /\ reading' = {[kind |-> kind, raw |-> raw, result |-> result]}
  /\ UNCHANGED <<device, calib, at>>

\* hts221_read_humidity_centi_percent
ReadHumidity(raw) ==
  /\ at = "ready" /\ calib.valid
  /\ LET r == Int16(Bytes2(raw))
     IN  Report("humidity", raw,
                Clip(Interpolate(calib.h0_centi_percent, calib.h1_centi_percent,
                                 calib.h0_out, calib.h1_out, r)))

\* hts221_read_temperature_centi_c
ReadTemperature(raw) ==
  /\ at = "ready" /\ calib.valid
  /\ LET r == Int16(Bytes2(raw))
     IN  Report("temperature", raw,
                Interpolate(calib.t0_centi_c, calib.t1_centi_c, calib.t0_out, calib.t1_out, r))

\* lps25h_read_pressure_centi_hpa
ReadPressure(raw) ==
  /\ at = "ready"
  /\ Report("pressure", raw, Quotient(Int24(Bytes3(raw)) * 100, 4096))

Next ==
  \/ InitStarts \/ Transfer \/ Abandon
  \/ \E raw \in Raws : ReadHumidity(raw) \/ ReadTemperature(raw)
  \/ \E raw \in Pressures : ReadPressure(raw)

Spec == Init /\ [][Next]_vars

-----------------------------------------------------------------------------
\* v is the point of the line through (x0, y0) and (x1, y1) at x, but for less
\* than one unit in the direction of y0.
OnLine(x0, y0, x1, y1, x, v) ==
  LET sign  == IF x1 < x0 THEN -1 ELSE 1
      rise  == sign * (x - x0) * (y1 - y0)
      error == rise - sign * (v - y0) * (x1 - x0)
  IN  /\ rise >= 0 => error >= 0 /\ error < sign * (x1 - x0)
      /\ rise <= 0 => error <= 0 /\ -error < sign * (x1 - x0)

\* The same, where the line leaves 0 to 10000 cut off at these.
OnLineInPercent(x0, y0, x1, y1, x, v) ==
  LET sign == IF x1 < x0 THEN -1 ELSE 1
      run  == sign * (x1 - x0)
      y    == y0 * run + sign * (x - x0) * (y1 - y0)     \* in units of 1/run
  IN  /\ 0 <= v /\ v <= 10000
      /\ v = 0 => y < run
      /\ v = 10000 => y > 9999 * run
      /\ 0 < v /\ v < 10000 => OnLine(x0, y0, x1, y1, x, v)

\* Whatever the calibration, rising or falling, at the ends of 16 bits or with
\* points one apart, and after initializations broken off anywhere: a reading is
\* the value of the device's own line, to a hundredth, towards the first point;
\* humidities end at 0 and 100 %, pressures keep their sign (hts221.c:88-331,
\* lps25h.c:48-105).
ReadingOnLine ==
  \A r \in reading :
    /\ r.kind = "temperature" =>
         OnLine(device.t0_out, (device.t0 * 25) \div 2, device.t1_out, (device.t1 * 25) \div 2,
                r.raw, r.result)
    /\ r.kind = "humidity" =>
         OnLineInPercent(device.h0_out, device.h0 * 50, device.h1_out, device.h1 * 50,
                         r.raw, r.result)
    /\ r.kind = "pressure" => OnLine(0, 0, 4096, 100, r.raw, r.result)
=============================================================================
