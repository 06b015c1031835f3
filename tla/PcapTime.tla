------------------------------ MODULE PcapTime ------------------------------
(***************************************************************************)
(* The clock of packet_handler() in tools/ovextcap/main.c.  The device     *)
(* counts ticks of 1/60 MHz from the start of the capture; a record in the *)
(* pcap file has seconds since the epoch and nanoseconds.  The host's time *)
(* at the start is turned into ticks once, and from then on the ticks from *)
(* one packet to the next are added.                                       *)
(***************************************************************************)
EXTENDS Integers

CONSTANTS
  StartTimes,  \* bound: times of the host's clock at which a capture starts
  Ticks,       \* bound: ticks that pass between two packets
  MaxTicks     \* bound: the last timestamp of the device

\* OV_TIMESTAMP_FREQ_HZ
FREQ == 60000000
NSEC == 1000000000   \* nanoseconds in a second
INT_MAX == 2147483647  \* half of what the 32 bits of nsec hold

\* What clock_gettime() yields
HostTimes == [sec : Nat, nsec : 0 .. NSEC - 1]

VARIABLES
  utc_ts, ts_offset,  \* the time of the last packet, in seconds and ticks
  last_ov_ts,         \* its timestamp
  ts                  \* clock_gettime() at the start of the capture

clock_vars == <<utc_ts, ts_offset, last_ov_ts, ts>>

\* nsec * 0.06, without a product that overflows 32 bits
StartOffset(nsec) == (nsec \div 17) + (nsec \div 850)

ClockInit ==
  /\ ts \in StartTimes \cap HostTimes
  /\ utc_ts = ts.sec /\ ts_offset = StartOffset(ts.nsec) /\ last_ov_ts = 0

\* ts_nsec of a record: a tick is 16 2/3 ns
Nanoseconds(ticks) == (ticks * 17) - (ticks \div 3)

\* Mutant of AdvanceClock: the ticks within the second are not carried over.
AdvanceClockNoCarry(timestamp) ==
  LET passed == ts_offset + (timestamp - last_ov_ts)
  IN  /\ utc_ts' = utc_ts + ((timestamp - last_ov_ts) \div FREQ)
      /\ ts_offset' = passed % FREQ
      /\ last_ov_ts' = timestamp
      /\ UNCHANGED ts

\* The part of packet_handler() that every packet runs through, even one without
\* data, of which no record is written
AdvanceClock(timestamp) ==
  LET passed == ts_offset + (timestamp - last_ov_ts)
  IN  /\ utc_ts' = utc_ts + (passed \div FREQ)
      /\ ts_offset' = passed % FREQ
      /\ last_ov_ts' = timestamp
      /\ UNCHANGED ts

\* The decoder's timestamps never decrease: see TimestampsOrdered of Decoder.
ClockNext ==
  \E passed \in Ticks \cap Nat :
    /\ last_ov_ts + passed <= MaxTicks
    /\ AdvanceClock(last_ov_ts + passed)

ClockSpec == ClockInit /\ [][ClockNext]_clock_vars

-----------------------------------------------------------------------------
\* The fields' types; the offset is less than a second.
ClockTypeOK ==
  /\ ts \in HostTimes /\ utc_ts \in Nat /\ last_ov_ts \in Nat
  /\ ts_offset \in Nat /\ ts_offset < FREQ

\* The nanoseconds of a record are less than a second, as the pcap format has it,
\* and no 32-bit operation on the way to them overflows.
NsecWithinSecond ==
  /\ ts_offset * 17 < INT_MAX
  /\ Nanoseconds(ts_offset) \in Nat /\ Nanoseconds(ts_offset) < NSEC

\* No tick is lost or counted twice, however many packets there were: the time
\* of a packet is the time of the start and the packet's timestamp.
NoDrift ==
  (utc_ts - ts.sec) * FREQ + ts_offset = StartOffset(ts.nsec) + last_ov_ts

\* At timestamp 0 a record has the host's time at the start, to two ticks.
StartsAtHostTime ==
  last_ov_ts = 0 => /\ utc_ts = ts.sec
                    /\ Nanoseconds(ts_offset) - ts.nsec \in -34 .. 1

\* The time of a record is never before that of the record before it.
TimeNeverBack ==
  [][\/ utc_ts' > utc_ts
     \/ utc_ts' = utc_ts /\ Nanoseconds(ts_offset') >= Nanoseconds(ts_offset)]_clock_vars
=============================================================================
