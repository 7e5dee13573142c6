----------------------------- MODULE Statistics -----------------------------
(***************************************************************************)
(* The main loops of ixy-fwd, ixy-cpp-fwd and ixy-pktgen around their      *)
(* packets: the system call filter of src/libseccomp_init.c and the        *)
(* statistics of src/stats.c and src/stats.cpp.  The NIC counts packets    *)
(* and octets at any time, in registers that a read sets back to 0.        *)
(***************************************************************************)
EXTENDS Registers, Sequences

CONSTANTS LOW,          \* 2^32, the values the low half of an octet count has
          PERIOD,       \* 4096, the rounds of the loop per look at the time
          OCTETS,       \* of a packet
          MaxPackets    \* bound on the packets the NIC counts

ASSUME StatisticsAssumption == LOW \in Nat \ {0} /\ OCTETS \in Nat

VARIABLES
    program, dev2,  \* the program, and its second device, which may be dev1
    reg,            \* the registers of the two devices
    main_pc,
    todo,           \* the devices stats_init has to clear yet
    object,         \* 1 for stats1 and dev1, 2 for stats2 and dev2
    order, reads,   \* ixgbe_read_stats: its reads, and those not made yet
    read,           \* and its local variables
    stats, stats_old,
    counter,
    late,           \* more than a second passed since last_stats_printed
    filter,         \* the system calls that are allowed, all before the filter
    traffic, cleared, printed   \* what was counted, dropped and reported so far

nicvars == <<reg, traffic>>
objects == <<stats, stats_old, printed>>
reading == <<object, order, reads, read>>
loopvars == <<program, dev2, nicvars, main_pc, todo, reading, objects, counter, late,
              filter, cleared>>

Devices == {1, 2}
device_stats == {"rx_pkts", "tx_pkts", "rx_bytes", "tx_bytes"}
cpp_device_stats == device_stats
Zero == [f \in device_stats |-> 0]
Add(a, b) == [f \in device_stats |-> a[f] + b[f]]
Calls == {"getuid", "fstat STDOUT", "write STDOUT", "write STDERR"}

\* The operands of + are read in either order.
ReadOrders ==
    {<<IXGBE_GPRC, IXGBE_GPTC, IXGBE_GORCL, IXGBE_GORCH, IXGBE_GOTCL, IXGBE_GOTCH>>,
     <<IXGBE_GPRC, IXGBE_GPTC, IXGBE_GORCH, IXGBE_GORCL, IXGBE_GOTCH, IXGBE_GOTCL>>}
Field(r) == CASE r = IXGBE_GPRC -> "rx_pkts"
              [] r = IXGBE_GPTC -> "tx_pkts"
              [] r \in {IXGBE_GORCL, IXGBE_GORCH} -> "rx_bytes"
              [] r \in {IXGBE_GOTCL, IXGBE_GOTCH} -> "tx_bytes"
Shifted(r, value) == IF r \in {IXGBE_GORCH, IXGBE_GOTCH} THEN value * LOW ELSE value

\* The devices are initialised.
StatsInit ==
    /\ program \in {"ixy-fwd", "ixy-cpp-fwd", "ixy-pktgen"}
    /\ dev2 \in IF program = "ixy-pktgen" THEN {1} ELSE Devices
    /\ reg = [d \in Devices |-> [r \in Counters |-> 0]]
    /\ main_pc = "seccomp"
    /\ todo = << >>
    /\ object = 1 /\ order \in ReadOrders /\ reads = << >> /\ read = Zero
    /\ stats = [o \in {1, 2} |-> Zero] /\ stats_old = stats
    /\ counter = 0 /\ late = FALSE
    /\ filter = Calls
    /\ traffic = [d \in Devices |-> Zero] /\ cleared = traffic
    /\ printed = stats

Rules == {"getuid", "fstat STDOUT", "write STDOUT"}
\* The objects of the C programs clear the counters of their device one by one,
\* the constructor in C++ leaves them alone.
setup_seccomp ==
    /\ main_pc = "seccomp"
    /\ \/ filter' = Rules /\ main_pc' = "stats_init"
       \/ UNCHANGED filter /\ main_pc' = "error"
    /\ todo' = CASE program = "ixy-pktgen" -> <<1, 1>>
                 [] program = "ixy-fwd" -> <<1, 1, dev2, dev2>>
                 [] program = "ixy-cpp-fwd" -> << >>
    /\ UNCHANGED <<program, dev2, nicvars, reading, objects, counter, late, cleared>>

stats_init ==
    /\ main_pc = "stats_init"
    /\ IF todo = << >>
       THEN main_pc' = "loop" /\ UNCHANGED <<reads, read>>
       ELSE main_pc' = "clearing" /\ reads' = order /\ read' = Zero
    /\ UNCHANGED <<program, dev2, nicvars, todo, object, order, objects, counter, late,
                   filter, cleared>>

Device == IF main_pc = "clearing" THEN Head(todo) ELSE IF object = 1 THEN 1 ELSE dev2

\* One register.
ReadRegister ==
    LET r == Head(reads)
    IN  /\ main_pc \in {"clearing", "reading"}
        /\ reads # << >>
        /\ read' = [read EXCEPT ![Field(r)] = @ + Shifted(r, reg[Device][r])]
        /\ reg' = [reg EXCEPT ![Device][r] = 0]
        /\ reads' = Tail(reads)
        /\ UNCHANGED <<program, dev2, traffic, main_pc, todo, object, order, objects, counter,
                       late, filter, cleared>>

\* if (stats): stats_init passes NULL.
ReadDone ==
    /\ main_pc \in {"clearing", "reading"}
    /\ reads = << >>
    /\ read' = Zero
    /\ IF main_pc = "clearing"
       THEN /\ main_pc' = "stats_init"
            /\ cleared' = [cleared EXCEPT ![Device] = Add(@, read)]
            /\ todo' = Tail(todo)
            /\ UNCHANGED stats
       ELSE /\ main_pc' = "print"
            /\ stats' = [stats EXCEPT ![object] = Add(@, read)]
            /\ UNCHANGED <<cleared, todo>>
    /\ UNCHANGED <<program, dev2, nicvars, object, order, reads, stats_old, printed,
                   counter, late, filter>>

\* if ((counter++ & 0xFFF) == 0)
LookAtTime ==
    /\ counter' = (counter + 1) % PERIOD
    /\ IF counter = 0 /\ late
       THEN main_pc' = "reading" /\ object' = 1 /\ reads' = order
       ELSE UNCHANGED <<main_pc, object, reads>>
\* mutant: the time is looked at only once there is a packet
Round_idle ==
    /\ main_pc = "loop"
    /\ traffic[1].rx_pkts > 0
    /\ LookAtTime
    /\ UNCHANGED <<program, dev2, nicvars, todo, order, read, objects, late, filter, cleared>>
\* A round of the loop, after its packet.  Receiving may call error().
Round ==
    /\ main_pc = "loop"
    /\ \/ LookAtTime
       \/ program # "ixy-pktgen" /\ main_pc' = "error" /\ UNCHANGED <<counter, object, reads>>
    /\ UNCHANGED <<program, dev2, nicvars, todo, order, read, objects, late, filter, cleared>>

\* In units of packets, and of bits on the wire: the time cancels out when the
\* reports are added up.
diff_mpps(pkts_new, pkts_old) == pkts_new - pkts_old
diff_mbit(bytes_new, bytes_old, pkts_new, pkts_old) ==
    (bytes_new - bytes_old) * 8 + diff_mpps(pkts_new, pkts_old) * 20 * 8
print_stats_diff(new, old) ==
    [rx_pkts |-> diff_mpps(new.rx_pkts, old.rx_pkts),
     tx_pkts |-> diff_mpps(new.tx_pkts, old.tx_pkts),
     rx_bytes |-> diff_mbit(new.rx_bytes, old.rx_bytes, new.rx_pkts, old.rx_pkts),
     tx_bytes |-> diff_mbit(new.tx_bytes, old.tx_bytes, new.tx_pkts, old.tx_pkts)]
\* stats.cpp has its own copies.
cpp_diff_mpps(pkts_new, pkts_old) == diff_mpps(pkts_new, pkts_old)
cpp_diff_mbit(bytes_new, bytes_old, pkts_new, pkts_old) ==
    diff_mbit(bytes_new, bytes_old, pkts_new, pkts_old)
cpp_print_stats_diff(new, old) ==
    [rx_pkts |-> cpp_diff_mpps(new.rx_pkts, old.rx_pkts),
     tx_pkts |-> cpp_diff_mpps(new.tx_pkts, old.tx_pkts),
     rx_bytes |-> cpp_diff_mbit(new.rx_bytes, old.rx_bytes, new.rx_pkts, old.rx_pkts),
     tx_bytes |-> cpp_diff_mbit(new.tx_bytes, old.tx_bytes, new.tx_pkts, old.tx_pkts)]

\* The printing of one object, and what stats_old is set to.
ReportAs(new_old) ==
    /\ main_pc = "print"
    /\ printed' = [printed EXCEPT ![object] =
            Add(@, IF program = "ixy-cpp-fwd"
                   THEN cpp_print_stats_diff(stats[object], stats_old[object])
                   ELSE print_stats_diff(stats[object], stats_old[object]))]
    /\ stats_old' = [stats_old EXCEPT ![object] = new_old]
    /\ IF "write STDOUT" \notin filter
       THEN main_pc' = "killed" /\ UNCHANGED <<object, reads, late>>
       ELSE IF object = 1 /\ dev2 # 1
       THEN main_pc' = "reading" /\ object' = 2 /\ reads' = order /\ UNCHANGED late
       ELSE main_pc' = "loop" /\ late' = FALSE /\ UNCHANGED <<object, reads>>
    /\ UNCHANGED <<program, dev2, nicvars, todo, order, read, stats, counter, filter,
                   cleared>>
\* mutant: the old values are kept
Report_twice == ReportAs(stats_old[object])
Report == ReportAs(stats[object])

\* The message goes to stderr.
error ==
    /\ main_pc = "error"
    /\ main_pc' = IF "write STDERR" \in filter THEN "aborted" ELSE "silenced"
    /\ UNCHANGED <<program, dev2, nicvars, todo, reading, objects, counter, late, filter,
                   cleared>>

Loop == setup_seccomp \/ stats_init \/ ReadRegister \/ ReadDone \/ Round \/ Report \/ error
-----------------------------------------------------------------------------
Second ==
    /\ late' = TRUE
    /\ UNCHANGED <<program, dev2, nicvars, main_pc, todo, reading, objects, counter, filter,
                   cleared>>

\* A packet is received or sent.
NicCounts ==
    /\ traffic[1].rx_pkts + traffic[1].tx_pkts + traffic[2].rx_pkts + traffic[2].tx_pkts
            < MaxPackets
    /\ \E d \in Devices,
          count \in {<<"rx_pkts", "rx_bytes", IXGBE_GPRC, IXGBE_GORCL, IXGBE_GORCH>>,
                     <<"tx_pkts", "tx_bytes", IXGBE_GPTC, IXGBE_GOTCL, IXGBE_GOTCH>>} :
           LET octets == reg[d][count[4]] + OCTETS
           IN  /\ traffic' = [traffic EXCEPT ![d][count[1]] = @ + 1,
                                             ![d][count[2]] = @ + OCTETS]
               /\ reg' = [reg EXCEPT ![d][count[3]] = @ + 1,
                                     ![d][count[4]] = octets % LOW,
                                     ![d][count[5]] = @ + octets \div LOW]
    /\ UNCHANGED <<program, dev2, main_pc, todo, reading, objects, counter, late, filter,
                   cleared>>

LoopNext == Loop \/ Second \/ NicCounts
\* main never blocks and time passes.
LoopSpec == StatsInit /\ [][LoopNext]_loopvars /\ WF_loopvars(Loop) /\ WF_loopvars(Second)
-----------------------------------------------------------------------------
InRegisters(d) ==
    [rx_pkts |-> reg[d][IXGBE_GPRC],
     tx_pkts |-> reg[d][IXGBE_GPTC],
     rx_bytes |-> reg[d][IXGBE_GORCL] + LOW * reg[d][IXGBE_GORCH],
     tx_bytes |-> reg[d][IXGBE_GOTCL] + LOW * reg[d][IXGBE_GOTCH]]
Objects(d) == Add(IF d = 1 THEN stats[1] ELSE Zero, IF d = dev2 THEN stats[2] ELSE Zero)

\* The statistics lose and repeat nothing, although a report takes six reads per
\* device while packets keep coming: every packet and octet is still in a
\* register, being read, cleared before the loop, or in the statistics of its
\* device, in whatever order the halves are read; and the reports add up to the
\* statistics, with 20 bytes per packet on the wire.
CountedOnce ==
    /\ \A d \in Devices :
        traffic[d] = Add(Add(InRegisters(d), cleared[d]),
                         Add(Objects(d), IF d = Device THEN read ELSE Zero))
    /\ \A o \in {1, 2} : printed[o] = print_stats_diff(stats_old[o], Zero)

\* A program that does not end in error() keeps reporting, packets or none: the
\* loop gets along with the system calls of the filter.
ReportsContinue ==
    []<>(main_pc = "print" /\ object = 1) \/ <>(main_pc \in {"aborted", "silenced"})
=============================================================================
