--------------------------- MODULE St7796sDisplay ---------------------------
(***************************************************************************)
(* The display driver kernel/st7796s_device_driver: probe writes the       *)
(* panel's registers and four pictures over SPI, in one long sequence of   *)
(* transfers any of which can fail.  A command and its data are two        *)
(* transfers, told apart by the level of the command line.                 *)
(***************************************************************************)
EXTENDS Integers, Sequences

CONSTANTS
    MaxFail,    \* bound: transfers that fail in a behaviour
    MaxBinds    \* bound: probes in a behaviour

EIO == -5
Tx(c) == [cmd |-> c, data |-> <<>>]
Reg(c, d) == [cmd |-> c, data |-> d]

Horizontal == 320
Vertical == 480
RAMWR == \h2C      \* the command of st7796s_write_pixel

\* The register writes of probe, in order.
Setup == <<
    Tx(\h01),
    Reg(\hF0, <<\hC3>>), Reg(\hF0, <<\h96>>),
    Reg(\hC5, <<\h1C>>), Reg(\h3A, <<\h55>>), Reg(\h36, <<\h28>>),
    Reg(\hB0, <<\h80>>), Reg(\hB4, <<\h00>>), Reg(\hB6, <<\h80, \h02, \h3B>>),
    Reg(\hB7, <<\hC6>>),
    Reg(\hF0, <<\h69>>), Reg(\hF0, <<\h3C>>),
    Reg(\h2A, <<0, 0, Vertical \div 256, Vertical % 256>>),
    Reg(\h2B, <<0, 0, Horizontal \div 256, Horizontal % 256>>),
    Tx(\h11), Tx(\h29) >>

\* Three plain colours (memset repeats the low byte of each) and an image, which stands
\* here for a value that no byte has.
Sunset == <<256>>
Pictures == << <<\hC6>>, <<\hCF>>, <<\h1F>>, Sunset >>

Script == Setup \o [i \in 1..Len(Pictures) |-> Reg(RAMWR, Pictures[i])]
IsPicture(n) == n > Len(Setup)

VARIABLES
    pc, pos,       \* the next step of probe, and the entry of Script it is at
    cs, dc,        \* the lines sel_st7796s and cmd_st7796s
    panel,         \* the panel: its last command, what each command has set
    frees,         \* times the picture buffer has been given to kfree
    failed,        \* history: the transfers of this probe that failed
    binds, fails   \* counted against their bounds

vars == <<pc, pos, cs, dc, panel, frees, failed, binds, fails>>

SWRESET == \h01
Commands == {Script[n].cmd : n \in 1..Len(Script)}
\* What a command has set before it is sent.
Default == [c \in Commands |-> <<-1>>]

Init ==
    /\ pc = "unbound" /\ pos = 1
    /\ cs = 0 /\ dc = 0
    /\ panel = [last |-> 0, set |-> Default]
    /\ frees = 0 /\ failed = {} /\ binds = 0 /\ fails = 0

-----------------------------------------------------------------------------
(* The panel *)

\* A byte sent with the command line up is a command, the others set what the last
\* command names.  A reset puts everything back.
Take(bytes, line) ==
    IF line = 1
    THEN [last |-> bytes[1],
          set |-> IF bytes[1] = SWRESET THEN [Default EXCEPT ![SWRESET] = <<>>]
                  ELSE [panel.set EXCEPT ![bytes[1]] = <<>>]]
    ELSE [panel EXCEPT !.set =
              IF panel.last \in Commands THEN [@ EXCEPT ![panel.last] = bytes] ELSE @]

\* spi_sync_transfer: it succeeds, or it fails and the panel may have got it or not;
\* that a part of it got there is left out.
Transfer(part, bytes, err) ==
    \/ err = 0 /\ panel' = Take(bytes, dc') /\ UNCHANGED <<failed, fails>>
    \/ /\ err = EIO /\ fails < MaxFail
       /\ panel' \in {panel, Take(bytes, dc')}
       /\ failed' = failed \cup {<<pos, part>>} /\ fails' = fails + 1

-----------------------------------------------------------------------------
(* The driver *)

\* devm_gpiod_get_optional, gpiod_direction_output and spi_setup: a line that cannot be
\* had is only noticed by gpiod_direction_output.  Every failure leaves the panel alone.
\* Without a device tree node prepare is NULL, and calling it ends in an oops; so does
\* a missing st7796s_dev, for the test of its allocation looks at st7796s_conf.
Probe ==
    /\ pc = "unbound" /\ binds < MaxBinds
    /\ binds' = binds + 1 /\ failed' = {} /\ pos' = 1 /\ frees' = 0
    /\ \/ pc' = "prepare" /\ cs' = 0 /\ dc' = 1
       \/ pc' = "unbound" /\ cs' \in {cs, 0} /\ dc' \in {dc, 0, 1}
       \/ /\ pc' = "oops"
          /\ \/ UNCHANGED <<cs, dc>>
             \/ cs' = 0 /\ dc' = 1
    /\ UNCHANGED <<panel, fails>>

\* select_assert
Prepare ==
    /\ pc = "prepare"
    /\ cs' = 1
    /\ pc' = IF IsPicture(pos) THEN "alloc" ELSE "command"
    /\ UNCHANGED <<pos, dc, panel, frees, failed, binds, fails>>

\* kmalloc, whose result is used untested.
Alloc ==
    /\ pc = "alloc"
    /\ frees' = 0
    /\ pc' \in {"command", "oops"}
    /\ UNCHANGED <<pos, cs, dc, panel, failed, binds, fails>>

\* The helpers return their int as an uint8_t.
Returned(err) == err % 256

\* probe tests what the writes return, but for the last two and the pictures.
Tested(n) == n <= Len(Setup) - 2

\* The helper returns: probe gives up, frees the picture, or goes on.
Return(err) ==
    /\ IF Tested(pos) /\ Returned(err) < 0 THEN pc' = "unbound" /\ pos' = pos
       ELSE IF IsPicture(pos) THEN pc' = "free" /\ pos' = pos
       ELSE IF pos = Len(Setup) THEN pc' = "finish" /\ pos' = pos
       ELSE pc' = "command" /\ pos' = pos + 1

\* Slip: a command that cannot be sent is followed by its data all the same.
SendCommand_GoesOn ==
    /\ pc = "command"
    /\ dc' = 1
    /\ \E err \in {0, EIO} :
           /\ Transfer("command", <<Script[pos].cmd>>, err)
           /\ IF Script[pos].data = <<>> THEN Return(err) ELSE pc' = "data" /\ pos' = pos
    /\ UNCHANGED <<cs, frees, binds>>

\* send_command and the transfer of the command.
SendCommand ==
    /\ pc = "command"
    /\ dc' = 1
    /\ \E err \in {0, EIO} :
           /\ Transfer("command", <<Script[pos].cmd>>, err)
           /\ IF err < 0 \/ Script[pos].data = <<>> THEN Return(err)
              ELSE pc' = "data" /\ pos' = pos
    /\ UNCHANGED <<cs, frees, binds>>

\* Slip: a picture that cannot be sent is left to the caller alone, who does not know.
SendData_NoFree ==
    /\ pc = "data"
    /\ dc' = 0
    /\ \E err \in {0, EIO} : Transfer("data", Script[pos].data, err) /\ Return(err)
    /\ frees' = IF IsPicture(pos) THEN frees + 1 ELSE frees
    /\ UNCHANGED <<cs, binds>>

\* Slip: the command line stays up.
SendData_AsCommand ==
    /\ pc = "data"
    /\ dc' = 1
    /\ \E err \in {0, EIO} :
           /\ Transfer("data", Script[pos].data, err)
           /\ Return(err)
           /\ frees' = IF err < 0 /\ IsPicture(pos) THEN frees + 1 ELSE frees
    /\ UNCHANGED <<cs, binds>>

\* send_data and the transfer of the data; write_pixel frees the picture if it fails.
SendData ==
    /\ pc = "data"
    /\ dc' = 0
    /\ \E err \in {0, EIO} :
           /\ Transfer("data", Script[pos].data, err)
           /\ Return(err)
           /\ frees' = IF err < 0 /\ IsPicture(pos) THEN frees + 1 ELSE frees
    /\ UNCHANGED <<cs, binds>>

\* probe frees the picture, whatever write_pixel has done.
Free ==
    /\ pc = "free"
    /\ frees' = frees + 1
    /\ IF pos = Len(Script) THEN pc' = "finish" /\ pos' = pos
       ELSE pc' = "alloc" /\ pos' = pos + 1
    /\ UNCHANGED <<cs, dc, panel, failed, binds, fails>>

\* select_deassert, after the registers and after the pictures.
Finish ==
    /\ pc = "finish"
    /\ cs' = 0
    /\ IF pos = Len(Script) THEN pc' = "bound" /\ pos' = pos
       ELSE pc' = "prepare" /\ pos' = pos + 1
    /\ UNCHANGED <<dc, panel, frees, failed, binds, fails>>

\* remove does nothing; the lines and the device's memory go.
Remove ==
    /\ pc = "bound"
    /\ pc' = "unbound"
    /\ UNCHANGED <<pos, cs, dc, panel, frees, failed, binds, fails>>

Next ==
    \/ Probe \/ Prepare \/ Alloc \/ SendCommand \/ SendData \/ Free \/ Finish \/ Remove

Spec == Init /\ [][Next]_vars

-----------------------------------------------------------------------------
(* Properties *)

TypeOK ==
    /\ pc \in {"unbound", "prepare", "alloc", "command", "data", "free", "finish", "bound",
               "oops"}
    /\ pos \in 1..Len(Script)
    /\ cs \in {0, 1} /\ dc \in {0, 1}
    /\ frees \in 0..2
    /\ failed \subseteq (1..Len(Script)) \X {"command", "data"}

\* Whatever transfers fail, the panel never takes the data of one command for that of
\* another: each of its registers has a value written for it, or none.
Framed ==
    \A c \in Commands :
        \/ panel.set[c] \in {<<-1>>, <<>>}
        \/ \E n \in 1..Len(Script) : Script[n].cmd = c /\ panel.set[c] = Script[n].data

\* The last value that probe has for a command.
Meant(c) ==
    LET n == CHOOSE i \in 1..Len(Script) :
                 /\ Script[i].cmd = c
                 /\ \A j \in 1..Len(Script) : Script[j].cmd = c => j <= i
    IN Script[n].data

\* Probe goes on after a failed transfer and reports success.  What it leaves wrong on the
\* panel is then just what the failed transfers were to set: a failure does not spread.
FailuresStayLocal ==
    pc = "bound" =>
        \A c \in Commands :
            \/ panel.set[c] = Meant(c)
            \/ \E f \in failed : Script[f[1]].cmd = c

\* A picture is never leaked, and freed twice only if its pixels could not be sent.
PicturesFreed ==
    \A n \in 1..Len(Script) :
        IsPicture(n) /\ <<pc, pos>> \in {<<"finish", n>>, <<"alloc", n + 1>>} =>
            frees = IF <<n, "data">> \in failed THEN 2 ELSE 1
=============================================================================
