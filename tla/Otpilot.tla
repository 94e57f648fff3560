------------------------------ MODULE Otpilot -------------------------------
(***************************************************************************)
(* The papa board between its BMC and the flash chip: the SPI device and   *)
(* its system call driver, the SPI host, the reset lines and their         *)
(* monitor, the alarm, the console, and the main loop of otpilot with its  *)
(* three processors.                                                       *)
(*                                                                         *)
(* The application runs until it yields; a yield runs the callback that    *)
(* has waited longest.  println! yields too.  The kernel, the hardware and *)
(* the BMC act between any two steps of the application.                   *)
(***************************************************************************)
EXTENDS SpiMessages
LOCAL INSTANCE SequencesExt

CONSTANTS
    MaxResets,     \* bound: resets that the BMC goes through by itself
    MaxUpcalls,    \* bound: callbacks that wait when the BMC changes the mode
    MaxKeys,       \* bound: keys pressed on the console
    Keys           \* which keys, of "1", "2", "!", "@" and "R"

VARIABLES
    bmc,           \* the BMC: state, address mode, command it waits for
    pins,          \* whether BMC_CPU_RST_N and BMC_SRST_N are high
    dev,           \* SPI device: BUSY, WEL, address mode, command FIFO, and
                   \* whether the RAM holds the reply to the last command
    rx,            \* the read buffer that the application shares with the driver
    upcalls,       \* callbacks scheduled for the application
    app,           \* the application
    ticker,        \* the alarm of the application in the kernel, and how many were set
    host,          \* SPI host: the transaction under way
    flash,         \* the flash chip
    budget         \* what is left of the bounds

ovars == <<bmc, pins, dev, rx, upcalls, app, ticker, host, flash, budget>>

(* What the BMC sends: an op code, where it points to, and whether the BMC  *)
(* has set the write enable bit before.                                     *)
Command(op, where, armed) == [op |-> op, where |-> where, armed |-> armed]
Commands ==
    { Command("PageProgram", "mailbox", TRUE), Command("PageProgram", "flash", TRUE),
      Command("PageProgram", "flash", FALSE), Command("PageProgram", "top", TRUE),
      Command("SectorErase", "flash", TRUE), Command("SectorErase", "mailbox", TRUE),
      Command("WriteStatusRegister", "data", TRUE), Command("WriteStatusRegister", "none", FALSE),
      Command("Enter4ByteAddressMode", "none", FALSE), Command("Exit4ByteAddressMode", "none", FALSE) }

NoCommand == [op |-> "Nop", where |-> "none", armed |-> FALSE, mode |-> "ThreeByte", known |-> TRUE]
NoTransaction == [op |-> "Nop", chunk |-> 0, poll |-> FALSE]

(* The initial values of otpilot, and initial_address_mode. *)
InitialMode == "ThreeByte"
AppStart ==
    [at |-> "boot", have |-> FALSE, busy |-> FALSE, wel |-> FALSE, mode |-> InitialMode,
     done |-> FALSE, todo |-> <<>>, next |-> "none", key |-> "none", listening |-> FALSE,
     events |-> <<>>, ignore |-> FALSE, alarm_id |-> 0, expired |-> FALSE]

(* After a chip reset: the reset lines of the BMC are low. *)
PowerUp(b, p, d, r, u, a, t, h) ==
    /\ b = [state |-> "held", mode |-> InitialMode, cmd |-> NoCommand]
    /\ p = [cpu |-> FALSE, srst |-> FALSE]
    /\ d = [busy |-> "no", wel |-> "no", mode |-> InitialMode, fifo |-> <<>>, reply |-> FALSE]
    /\ r = NoCommand
    /\ u = <<>>
    /\ a = AppStart
    /\ t = [id |-> 0, set |-> 0]
    /\ h = NoTransaction

OInit ==
    /\ PowerUp(bmc, pins, dev, rx, upcalls, app, ticker, host)
    /\ flash = [wel |-> FALSE, busy |-> FALSE, got |-> <<>>]
    /\ budget = [resets |-> MaxResets, keys |-> MaxKeys]

-----------------------------------------------------------------------------
(* The SPI device.  BUSY and WEL are set by hardware; what software clears  *)
(* changes when the BMC next reads the status register.                     *)
Cleared(bit) == IF bit = "set" THEN "clearing" ELSE bit
StatusRead(bit) == IF bit = "clearing" THEN "no" ELSE bit

clear_status(d, busy, wel) ==
    [d EXCEPT !.busy = IF busy THEN Cleared(@) ELSE @, !.wel = IF wel THEN Cleared(@) ELSE @]

set_address_mode(d, mode) == [d EXCEPT !.mode = mode]

Schedule(u) == upcalls' = Append(upcalls, u)
Upcall(kind, busy, wel, val) == [kind |-> kind, busy |-> busy, wel |-> wel, val |-> val]

(* process_spi_cmd: changes of the address mode and the status register are *)
(* dealt with in the kernel (HandlerMode KernelSpace), and end the command.  *)
ModeOp(cmd) == cmd.op \in {"Enter4ByteAddressMode", "Exit4ByteAddressMode"}
KernelSpace(cmd) ==
    ModeOp(cmd) \/ (cmd.op = "WriteStatusRegister" /\ cmd.where = "data")

process_spi_cmd(cmd, d) ==
    CASE ModeOp(cmd) ->
            clear_status(set_address_mode(d, IF cmd.op = "Enter4ByteAddressMode" THEN "FourByte"
                                             ELSE "ThreeByte"), TRUE, FALSE)
      [] ~ModeOp(cmd) /\ KernelSpace(cmd) -> clear_status(d, TRUE, TRUE)
      [] OTHER -> d

(* data_available for the command at the head of the FIFO.  The buffer of   *)
(* the application is overwritten whoever deals with the command.           *)
data_available ==
    LET cmd == Head(dev.fifo)
    IN  /\ dev.fifo # <<>>
        /\ dev' = process_spi_cmd(cmd, [dev EXCEPT !.fifo = Tail(@)])
        /\ rx' = IF KernelSpace(cmd) THEN NoCommand ELSE cmd
        /\ CASE ~KernelSpace(cmd) ->
                  Schedule(Upcall("data", dev.busy # "no", dev.wel # "no", "none"))
             [] dev'.mode # dev.mode -> Schedule(Upcall("mode", FALSE, FALSE, dev'.mode))
             [] OTHER -> UNCHANGED upcalls
        /\ UNCHANGED <<bmc, pins, app, ticker, host, flash, budget>>

-----------------------------------------------------------------------------
(* The BMC.  It sends the next command when the one before has ended, that  *)
(* is when it has read a status without BUSY, and waits for that also when  *)
(* it starts.  The kernel takes a command before the next one is complete.  *)
(* A command that follows a request to the mailbox is complete only after   *)
(* both of the clears that end the request.  Known (history): the BMC       *)
(* started in the mode of the device.                                       *)
BmcSend ==
    \E c \in Commands :
        LET cmd == [op |-> c.op, where |-> c.where, armed |-> c.armed, mode |-> bmc.mode,
                    known |-> bmc.cmd.known]
        IN  /\ bmc.state = "idle" /\ dev.fifo = <<>> /\ app.at # "clear_again"
            /\ c.where = "none" => Len(upcalls) < MaxUpcalls
            /\ bmc' = [bmc EXCEPT !.state = "polling", !.cmd = cmd]
            /\ dev' = [dev EXCEPT !.busy = "set", !.wel = IF c.armed THEN "set" ELSE @,
                                  !.fifo = Append(@, cmd), !.reply = FALSE]
            /\ UNCHANGED <<pins, rx, upcalls, app, ticker, host, flash, budget>>

BmcPoll ==
    /\ bmc.state = "polling" /\ dev.busy # "set"
    /\ dev' = [dev EXCEPT !.busy = StatusRead(@), !.wel = StatusRead(@)]
    /\ bmc' = [bmc EXCEPT !.state = "idle", !.cmd = [NoCommand EXCEPT !.known = bmc.cmd.known],
                          !.mode = CASE bmc.cmd.op = "Enter4ByteAddressMode" -> "FourByte"
                                     [] bmc.cmd.op = "Exit4ByteAddressMode" -> "ThreeByte"
                                     [] OTHER -> @]
    /\ UNCHANGED <<pins, rx, upcalls, app, ticker, host, flash, budget>>

(* The BMC starts, in the initial mode, with nothing to wait for. *)
BmcStarts ==
    bmc' = [bmc EXCEPT !.state = "polling", !.mode = InitialMode,
                       !.cmd = [NoCommand EXCEPT !.known = dev.mode = InitialMode]]

(* Out of reset; the monitor sees the rising edge. *)
BmcUp ==
    /\ bmc.state = "held" /\ pins.cpu /\ pins.srst
    /\ BmcStarts
    /\ Schedule(Upcall("gpio", FALSE, FALSE, "own"))
    /\ UNCHANGED <<pins, dev, rx, app, ticker, host, flash, budget>>

(* A reset of the BMC takes longer than the kernel takes for an interrupt. *)
BmcResets ==
    /\ bmc.state # "held" /\ dev.fifo = <<>> /\ budget.resets > 0
    /\ budget' = [budget EXCEPT !.resets = @ - 1]
    /\ BmcStarts
    /\ Schedule(Upcall("gpio", FALSE, FALSE, "bmc"))
    /\ UNCHANGED <<pins, dev, rx, app, ticker, host, flash>>

(* The pins are set; a BMC with a reset line low is held. *)
SetPins(p) ==
    /\ pins' = p
    /\ bmc' = IF p.cpu /\ p.srst THEN bmc
              ELSE [bmc EXCEPT !.state = "held", !.mode = InitialMode, !.cmd = NoCommand]

-----------------------------------------------------------------------------
(* The alarm and the console of the kernel.  The edge of a released BMC is  *)
(* seen within ALARM_MSECS.                                                 *)
AlarmFires ==
    /\ ticker.id # 0
    /\ bmc.state # "held" \/ ~pins.cpu \/ ~pins.srst
    /\ ticker' = [ticker EXCEPT !.id = 0]
    /\ Schedule(Upcall("alarm", FALSE, FALSE, ticker.id))
    /\ UNCHANGED <<bmc, pins, dev, rx, app, host, flash, budget>>

(* A held BMC is released by somebody at the console sooner or later. *)
Releases(k) == (k = "!" /\ ~pins.cpu) \/ (k = "@" /\ ~pins.srst)
KeyPressed ==
    \E k \in Keys :
        /\ app.listening /\ (Releases(k) \/ budget.keys > 0)
        /\ budget' = IF Releases(k) THEN budget ELSE [budget EXCEPT !.keys = @ - 1]
        /\ Schedule(Upcall("key", FALSE, FALSE, k))
        /\ app' = [app EXCEPT !.listening = FALSE]
        /\ UNCHANGED <<bmc, pins, dev, rx, ticker, host, flash>>

(* The SPI host.  The chip ignores what reaches it while it is busy, and    *)
(* changes that were not enabled.                                           *)
Modifies(op) == op \in {"PageProgram", "SectorErase"}
Reaches(t) ==
    flash' = CASE flash.busy -> flash
               [] t.op = "WriteEnable" -> [flash EXCEPT !.wel = TRUE]
               [] Modifies(t.op) /\ flash.wel ->
                     [wel |-> FALSE, busy |-> TRUE, got |-> Append(flash.got, t.chunk)]
               [] OTHER -> flash

FlashReady ==
    /\ flash.busy
    /\ flash' = [flash EXCEPT !.busy = FALSE]
    /\ UNCHANGED <<bmc, pins, dev, rx, upcalls, app, ticker, host, budget>>

(* TXDONE: with RDY_POLL only when the chip is no longer busy. *)
handle_host_interrupt ==
    /\ host.op # "Nop" /\ (host.poll => ~flash.busy)
    /\ host' = NoTransaction
    /\ Schedule(Upcall("done", FALSE, FALSE, "none"))
    /\ UNCHANGED <<bmc, pins, dev, rx, app, ticker, flash, budget>>

-----------------------------------------------------------------------------
(* The callbacks of the application. *)

(* Fault: an alarm that was set anew may still expire. *)
alarm_expired_any(a, id) == [a EXCEPT !.expired = TRUE]

alarm_expired(a, id) == IF a.alarm_id = id THEN [a EXCEPT !.expired = TRUE] ELSE a

(* The events of the monitored pin are counted; which of them the BMC       *)
(* caused and which its release is known only here.                         *)
add_event(a, e) == [a EXCEPT !.events = Append(@, e)]
consume_event(a) == [a EXCEPT !.events = Tail(@)]
clear_event(a) == [a EXCEPT !.events = <<>>]

Callback(a, u) ==
    CASE u.kind = "data" -> [a EXCEPT !.have = TRUE, !.busy = u.busy, !.wel = u.wel]
      [] u.kind = "mode" -> [a EXCEPT !.mode = u.val]
      [] u.kind = "done" -> [a EXCEPT !.done = TRUE]
      [] u.kind = "gpio" -> add_event(a, u.val)
      [] u.kind = "key" -> [a EXCEPT !.key = u.val]
      [] u.kind = "alarm" -> alarm_expired(a, u.val)

Ready(a) == a.have \/ a.key # "none" \/ a.events # <<>> \/ a.expired

(* process_gpio_events, as far as it prints.  The event is consumed before  *)
(* that in the code; here it stays first in line until the print is over.   *)
process_gpio_events(a) == IF a.ignore THEN "print_ignored" ELSE "print_reset"

(* The next part of the main loop, from the given one on, that has work; at *)
(* its end the loop begins again.                                           *)
GoOn(a, from) ==
    [a EXCEPT !.at = CASE from <= 1 /\ a.have -> "spi"
                       [] from <= 2 /\ a.key # "none" -> "print_key"
                       [] from <= 3 /\ a.events # <<>> -> process_gpio_events(a)
                       [] a.expired -> "print_alarm"
                       [] OTHER -> CASE a.have -> "spi"
                                     [] ~a.have /\ a.key # "none" -> "print_key"
                                     [] ~Ready(a) -> "wait"
                                     [] OTHER -> process_gpio_events(a)]

(* After the transaction the next one, or what the packet ends with. *)
wait_read_write_done(a) ==
    [a EXCEPT !.done = FALSE, !.at = IF a.todo = <<>> THEN a.next ELSE "send"]

(* yieldk, in the main loop, in wait_read_write_done and in println!, and   *)
(* the check of what was waited for after it.                               *)
yieldk ==
    LET a == Callback(app, Head(upcalls))
    IN  /\ app.at \in {"wait", "sending", "print_error", "print_key", "print_ignored",
                        "print_reset", "print_alarm"}
        /\ upcalls # <<>>
        /\ app' = CASE app.at = "wait" -> GoOn(a, 1)
                    [] app.at = "sending" /\ a.done -> wait_read_write_done(a)
                    [] OTHER -> a
        /\ upcalls' = Tail(upcalls)
        /\ UNCHANGED <<bmc, pins, dev, rx, ticker, host, flash, budget>>

(* After a packet the application uses neither it nor what is left of it. *)
Finished ==
    /\ app' = GoOn([app EXCEPT !.have = FALSE, !.busy = FALSE, !.wel = FALSE, !.next = "none"], 2)
    /\ rx' = IF \E i \in DOMAIN upcalls : upcalls[i].kind = "data" THEN rx ELSE NoCommand
    /\ flash' = [flash EXCEPT !.got = <<>>]

(* A step of the application that sends nothing over SPI and sets no pin. *)
Local(a) == app' = a /\ UNCHANGED <<bmc, pins, dev, rx, upcalls, ticker, host, flash, budget>>

(* GpioProcessor::set_alarm with alarm::set, after a pin was set high; the  *)
(* loop goes on from the given part.                                        *)
set_bmc_alarm(a, from) ==
    /\ ticker' = [id |-> ticker.set + 1, set |-> ticker.set + 1]
    /\ app' = GoOn([a EXCEPT !.ignore = TRUE, !.expired = FALSE, !.alarm_id = ticker.set + 1], from)

(* run, up to its loop: the device is set up and passthrough enabled before *)
(* the BMC is released.                                                     *)
run_setup ==
    /\ app.at = "boot"
    /\ SetPins([cpu |-> TRUE, srst |-> TRUE])
    /\ set_bmc_alarm([app EXCEPT !.listening = TRUE], 1)
    /\ UNCHANGED <<dev, rx, upcalls, host, flash, budget>>

-----------------------------------------------------------------------------
(* SpiProcessor.  A packet is decoded in the mode that the application      *)
(* knows; in another mode than it was sent its address and data are wrong.  *)
Decoded(cmd) ==
    IF cmd.mode = app.mode \/ ~has_address(cmd.op) THEN {cmd.where} ELSE {"mailbox", "flash", "top"}

(* spi_host_send: each part of the data in a transaction of its own, with   *)
(* write enable before it; without data there is one transaction.  The data *)
(* at the top of the flash fits into one.                                   *)
Chunks(op, where) == IF op = "PageProgram" /\ where = "flash" THEN <<1, 2>> ELSE <<1>>
Transaction(op, chunk) == [op |-> op, chunk |-> chunk, poll |-> wait_busy_clear(op)]
spi_host_write(op, where) ==
    FlattenSeq([i \in DOMAIN Chunks(op, where) |->
                  <<Transaction("WriteEnable", 0), Transaction(op, i)>>])


(* The reply is put into the RAM, then both bits are cleared; it is the     *)
(* right one if the request was decoded as it was sent.                     *)
end_transaction_with_data(d, right) == clear_status([d EXCEPT !.reply = right], TRUE, TRUE)

(* process_spi_packet and process_spi_header.  In the mailbox a request is  *)
(* answered at once: send_data clears the transaction and both bits.        *)
process_spi_packet ==
    /\ app.at = "spi" /\ app.have
    /\ \E where \in Decoded(rx) :
         IF ~has_address(rx.op)
         THEN Local([app EXCEPT !.at = "print_error"])
         ELSE IF ~app.wel \/ (rx.op = "SectorErase" /\ where = "mailbox")
         THEN Local([app EXCEPT !.at = "clear"])
         ELSE IF where = "mailbox"
         THEN /\ dev' = end_transaction_with_data(dev, rx.mode = app.mode)
              /\ app' = [app EXCEPT !.have = FALSE, !.at = "clear_again"]
              /\ UNCHANGED <<bmc, pins, rx, upcalls, ticker, host, flash, budget>>
         ELSE /\ flash' = [flash EXCEPT !.got = <<>>]
              /\ app' = [app EXCEPT !.todo = spi_host_write(rx.op, where), !.at = "send",
                           !.next = IF where = "top" /\ app.mode = "ThreeByte"
                                    THEN "print_error" ELSE "clear"]
              /\ UNCHANGED <<bmc, pins, dev, rx, upcalls, ticker, host, budget>>

(* spi_host_send, enter_4b, read_data and exit_4b: transactions one by one. *)
(* What is sent reaches the chip; nothing else looks at it meanwhile.       *)
read_write_bytes ==
    /\ app.at = "send" /\ app.todo # <<>>
    /\ host' = Head(app.todo) /\ Reaches(host')
    /\ app' = [app EXCEPT !.todo = Tail(@), !.at = "sending"]
    /\ UNCHANGED <<bmc, pins, dev, rx, upcalls, ticker, budget>>

(* clear_device_status. *)
end_transaction_with_status ==
    /\ app.at \in {"clear", "clear_again"}
    /\ dev' = clear_status(dev, TRUE, TRUE)
    /\ Finished
    /\ UNCHANGED <<bmc, pins, upcalls, ticker, host, budget>>

(* The error of a packet: BUSY is cleared, write enable is not. *)
packet_error ==
    /\ app.at = "print_error"
    /\ dev' = clear_status(dev, app.busy, FALSE)
    /\ Finished
    /\ UNCHANGED <<bmc, pins, upcalls, ticker, host, budget>>

-----------------------------------------------------------------------------
(* ConsoleProcessor, and allow_read afterwards.  Other keys only print. *)
process_input ==
    LET heard == [app EXCEPT !.key = "none", !.listening = TRUE]
    IN  /\ app.at = "print_key" /\ app.key # "R"
        /\ CASE app.key \in {"1", "2"} ->
                  /\ SetPins(IF app.key = "1" THEN [pins EXCEPT !.cpu = FALSE]
                             ELSE [pins EXCEPT !.srst = FALSE])
                  /\ app' = GoOn(heard, 3) /\ UNCHANGED ticker
             [] app.key \in {"!", "@"} ->
                  /\ SetPins(IF app.key = "!" THEN [pins EXCEPT !.cpu = TRUE]
                             ELSE [pins EXCEPT !.srst = TRUE])
                  /\ set_bmc_alarm(heard, 3)
        /\ UNCHANGED <<dev, rx, upcalls, host, flash, budget>>

(* R, or the reboot request of the BMC.  It uses up what is left of the     *)
(* bounds.                                                                  *)
reset_chip ==
    /\ app.at = "print_key" /\ app.key = "R"
    /\ PowerUp(bmc', pins', dev', rx', upcalls', app', ticker', host')
    /\ budget' = [resets |-> 0, keys |-> 0]
    /\ UNCHANGED flash

-----------------------------------------------------------------------------
(* GpioProcessor. *)
(* One event is consumed in a round of the loop.  Late (history): an event  *)
(* that is left over when the alarm is looked at, and found expired.        *)
bmc_rstmon_ignored ==
    LET a == consume_event(app)
        left == [i \in DOMAIN a.events |-> IF a.expired THEN "late" ELSE a.events[i]]
    IN  app.at = "print_ignored" /\ Local(GoOn([a EXCEPT !.events = left], 4))

(* SpiHostHelper. *)
enter_4b == Transaction("Enter4ByteAddressMode", 0)
read_and_print_data == Transaction("NormalRead", 0)
exit_4b == Transaction("Exit4ByteAddressMode", 0)

(* Fault: the device changes its mode without reading the flash first. *)
handle_bmc_rstmon_at_once ==
    /\ app.at = "print_reset"
    /\ SetPins([pins EXCEPT !.cpu = FALSE])
    /\ app' = [consume_event(app) EXCEPT !.at = "release"]
    /\ UNCHANGED <<dev, rx, upcalls, ticker, host, flash, budget>>

(* handle_bmc_rstmon: the BMC is held while the flash is read, ...  The     *)
(* helper leaves RDY_POLL as the last write set it, which makes no          *)
(* difference, as the chip is no longer busy then.                          *)
handle_bmc_rstmon ==
    /\ app.at = "print_reset"
    /\ SetPins([pins EXCEPT !.cpu = FALSE])
    /\ app' = [consume_event(app) EXCEPT !.at = "send", !.next = "release",
                                  !.todo = <<enter_4b, read_and_print_data, exit_4b>>]
    /\ UNCHANGED <<dev, rx, upcalls, ticker, host, flash, budget>>

(* Fault: the BMC stays in reset. *)
release_bmc_never ==
    /\ app.at = "release"
    /\ dev' = set_address_mode(dev, InitialMode)
    /\ rx' = [rx EXCEPT !.known = FALSE]
    /\ set_bmc_alarm([clear_event(app) EXCEPT !.mode = InitialMode, !.next = "none"], 4)
    /\ UNCHANGED <<bmc, pins, upcalls, host, flash, budget>>

(* ... and then released in the initial address mode. *)
release_bmc ==
    /\ app.at = "release"
    /\ dev' = set_address_mode(dev, InitialMode)
    /\ rx' = [rx EXCEPT !.known = FALSE]
    /\ SetPins([pins EXCEPT !.cpu = TRUE])
    /\ set_bmc_alarm([clear_event(app) EXCEPT !.mode = InitialMode, !.next = "none"], 4)
    /\ UNCHANGED <<upcalls, host, flash, budget>>

(* clear of an alarm that has expired. *)
clear_alarm(a) == [a EXCEPT !.expired = FALSE, !.alarm_id = 0]

gpio_alarm_expired ==
    /\ app.at = "print_alarm"
    /\ Local(GoOn([clear_alarm(app) EXCEPT !.ignore = FALSE], 1))

-----------------------------------------------------------------------------
(* The kernel serves an interrupt of the SPI device before the application  *)
(* goes on.                                                                 *)
AppNext ==
    /\ dev.fifo = <<>>
    /\ \/ run_setup \/ yieldk \/ process_spi_packet \/ read_write_bytes
       \/ end_transaction_with_status \/ packet_error
       \/ process_input \/ reset_chip
       \/ bmc_rstmon_ignored \/ handle_bmc_rstmon \/ release_bmc
       \/ gpio_alarm_expired

ONext ==
    \/ AppNext \/ data_available \/ handle_host_interrupt \/ FlashReady
    \/ BmcSend \/ BmcPoll \/ BmcUp \/ BmcResets \/ AlarmFires \/ KeyPressed

OTypeOK ==
    /\ bmc.state \in {"held", "polling", "idle"}
    /\ {dev.busy, dev.wel} \subseteq {"no", "set", "clearing"}
    /\ Len(dev.fifo) <= 1
    /\ app.at \in {"boot", "wait", "spi", "send", "sending", "clear", "clear_again",
                   "release", "print_error", "print_key", "print_ignored",
                   "print_reset", "print_alarm"}
    /\ app.todo # <<>> => app.at \in {"send", "sending"}

(* A packet is decoded in the address mode in which the BMC sent it.  Only  *)
(* packets of a BMC that started while the device was in another mode, or   *)
(* that were sent before a reset and handled after it, may not be.          *)
DecodedAsSent ==
    app.at = "spi" /\ app.have /\ rx.known /\ has_address(rx.op) => app.mode = rx.mode

(* A write to flash has reached the chip in full, part by part in order,    *)
(* when the BMC is told that it has ended.                                  *)
WritesReachFlash ==
    app.at = "clear" /\ app.next = "clear" => \E where \in Decoded(rx) : flash.got = Chunks(rx.op, where)


(* Releasing the BMC is not taken for a reset of the BMC, unless its edge   *)
(* was queued behind another one when the alarm expired.                    *)
OwnReleaseIgnored == app.at = "print_reset" => Head(app.events) # "own"

(* A BMC that is held for the check of the flash is released again. *)
BmcReleased == app.at = "print_reset" ~> pins.cpu

=============================================================================
