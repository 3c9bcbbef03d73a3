------------------------------ MODULE EspWifi ------------------------------
(***************************************************************************)
(* The ESP-IDF Wi-Fi driver as the firmware uses it: external code, seen   *)
(* from the calls in wifi_handler.c and the events in its event handler.   *)
(* A radio is a record: the interface that is started, and how far the     *)
(* station link has come.  The operators are pure; the modules that own    *)
(* a radio decide when a call happens and who else runs in between.        *)
(***************************************************************************)
EXTENDS Sequences

RadioModes == {"OFF", "AP", "STA"}
Links      == {"down", "joining", "up", "ip"}
Radios     == [mode : RadioModes, link : Links]

Radio(m, l) == [mode |-> m, link |-> l]
RadioOff    == Radio("OFF", "down")

\* The driver events the firmware reacts to.
StartEvent == [AP |-> "AP_START", STA |-> "STA_START"]
StopEvent  == [AP |-> "AP_STOP",  STA |-> "STA_STOP"]

DriverEvents == {"AP_START", "STA_START", "AP_STOP", "STA_STOP",
                 "STA_CONNECTED", "STA_DISCONNECTED", "GOT_IP",
                 "AP_STACONNECTED"}

Linked(r) == r.link \in {"up", "ip"}

\* The event sequences that taking the interface down may announce: an
\* established link is reported lost first; whether an attempt that has not
\* succeeded yet is reported is up to the driver.
DownEvents(r) ==
  LET stop == <<StopEvent[r.mode]>>
      lost == <<"STA_DISCONNECTED", StopEvent[r.mode]>>
  IN  IF Linked(r)             THEN {lost}
      ELSE IF r.link = "down"  THEN {stop}
      ELSE {stop, lost}

\* What a driver call leads to: the next radio and the events it announces.
Outcome(r, evs) == [radio |-> r, events |-> evs]

\* esp_wifi_stop: no event when nothing is started.
StopOutcomes(r) ==
  IF r.mode = "OFF" THEN {Outcome(RadioOff, <<>>)}
  ELSE {Outcome(RadioOff, evs) : evs \in DownEvents(r)}

\* esp_wifi_set_mode: a started driver changes its interface at once.
SetModeOutcomes(r, m) ==
  IF r.mode \in {"OFF", m} THEN {Outcome(r, <<>>)}
  ELSE {Outcome(Radio(m, "down"), Append(evs, StartEvent[m])) :
          evs \in DownEvents(r)}

\* esp_wifi_start: no event when already started.
StartOutcome(r, m) ==
  IF r.mode = "OFF" THEN Outcome(Radio(m, "down"), <<StartEvent[m]>>)
  ELSE Outcome(r, <<>>)

\* esp_wifi_connect: an attempt begins when the station is started and idle.
Joined(r) ==
  IF r.mode = "STA" /\ r.link = "down" THEN Radio("STA", "joining") ELSE r

\* esp_wifi_disconnect: an established link is reported lost.
DisconnectOutcome(r) ==
  IF Linked(r) THEN Outcome(Radio(r.mode, "down"), <<"STA_DISCONNECTED">>)
  ELSE Outcome(Radio(r.mode, "down"), <<>>)

\* What the air may do to the link on its own.
AirOutcomes(r) ==
  CASE r.link = "joining" -> {Outcome(Radio(r.mode, "up"), <<"STA_CONNECTED">>),
                              Outcome(Radio(r.mode, "down"), <<"STA_DISCONNECTED">>)}
    [] r.link = "up"      -> {Outcome(Radio(r.mode, "ip"), <<"GOT_IP">>),
                              Outcome(Radio(r.mode, "down"), <<"STA_DISCONNECTED">>)}
    [] r.link = "ip"      -> {Outcome(Radio(r.mode, "down"), <<"STA_DISCONNECTED">>)}
    [] r.link = "down"    -> {}
============================================================================
