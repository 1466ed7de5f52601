------------------------------ MODULE Resample ------------------------------
(***************************************************************************)
(* audio_resample.c: up to three conversions (channels, rate, bits) turn a *)
(* frame of the input format into one of the output format.  Each writes   *)
(* to one of two work buffers while it reads the other.  An allocation may *)
(* fail on any conversion; the frames after it must not pay for it.        *)
(***************************************************************************)
EXTENDS Naturals, Sequences

CONSTANTS Channels, Rates, Bytes,   \* the formats; Bytes: of a sample
          FrameSamples,             \* samples a frame may have
          MaxWrites                 \* bound: frames of a behaviour

VARIABLES
    input_info, output_info, ops,  \* fixed by audio_resample_open
    work_buf,     \* which of the two buffers are used
    step,         \* the conversion that is next, 0 between two frames
    cur_info,     \* the format reached so far
    samples,      \* sample_num
    need_size,    \* bytes of what is in it
    last,         \* the buffer that holds the samples, 0: the caller's
    given,        \* the last frame given to the callback: its format, its bytes
    writes

vars == <<input_info, output_info, ops, work_buf, step, cur_info, samples, need_size, last, given, writes>>

Formats == [channel : Channels, rate : Rates, bytes : Bytes]
SampleSize(f) == f.channel * f.bytes

\* sort_resample_ops and add_bits_resample: what makes the frame smaller comes first.
sort_resample_ops(in, out) ==
    (IF in.channel > out.channel THEN <<"channel">> ELSE <<>>)
    \o (IF in.bytes > out.bytes THEN <<"bytes">> ELSE <<>>)
    \o (IF in.rate # out.rate THEN <<"rate">> ELSE <<>>)
    \o (IF in.bytes < out.bytes THEN <<"bytes">> ELSE <<>>)
    \o (IF in.channel < out.channel THEN <<"channel">> ELSE <<>>)

\* audio_resample_open
Init ==
    /\ input_info \in Formats /\ output_info \in Formats
    /\ ops = sort_resample_ops(input_info, output_info)
    /\ work_buf = {} /\ step = 0 /\ cur_info = input_info /\ samples = 0
    /\ need_size = 0 /\ last = 0
    /\ given = [info |-> output_info, samples |-> 0, bytes |-> 0] /\ writes = 0

fixed == <<input_info, output_info, ops>>

\* audio_resample_write: an empty frame, or equal formats, go straight on.
Bypass(n) ==
    /\ step = 0 /\ writes < MaxWrites /\ (n = 0 \/ ops = <<>>)
    /\ given' = [info |-> output_info, samples |-> n, bytes |-> n * SampleSize(input_info)]
    /\ writes' = writes + 1
    /\ UNCHANGED <<fixed, work_buf, step, cur_info, samples, need_size, last>>

Begin(n) ==
    /\ step = 0 /\ writes < MaxWrites /\ n > 0 /\ ops # <<>>
    /\ step' = 1 /\ cur_info' = input_info /\ samples' = n /\ last' = 0
    /\ writes' = writes + 1
    /\ UNCHANGED <<fixed, work_buf, need_size, given>>

\* alloc_work_buf: the first buffer that is free.
Free == {1, 2} \ work_buf
FirstFree == CHOOSE i \in Free : \A j \in Free : i <= j

\* The rate by its ratio: a conversion to a higher one gives more samples.
ConvertRate(n) == (n * output_info.rate) \div cur_info.rate

\* get_need_size, and what the conversion of the rate makes of it.
get_need_size(op) ==
    CASE op = "channel" -> samples * output_info.channel * cur_info.bytes
      [] op = "bytes"   -> samples * cur_info.channel * output_info.bytes
      [] op = "rate"    -> ConvertRate(samples) * SampleSize(cur_info)

\* One round of the loop.  The samples are in the new buffer, the old one is free.
Convert ==
    /\ step \in 1 .. Len(ops) /\ Free # {}
    /\ LET op == ops[step] IN
       /\ need_size' = get_need_size(op)
       /\ samples' = IF op = "rate" THEN ConvertRate(samples) ELSE samples
       /\ cur_info' = [cur_info EXCEPT ![op] = output_info[op]]
    /\ work_buf' = (work_buf \cup {FirstFree}) \ {last}
    /\ last' = FirstFree /\ step' = step + 1
    /\ UNCHANGED <<fixed, given, writes>>

\* Mutant: the buffer with the samples so far stays used.
NoMemoryNot ==
    /\ step \in 1 .. Len(ops)
    /\ step' = 0
    /\ UNCHANGED <<fixed, work_buf, cur_info, samples, need_size, last, given, writes>>

\* The larger buffer is not to be had: the frame is given up.
NoMemory ==
    /\ step \in 1 .. Len(ops)
    /\ work_buf' = work_buf \ {last}
    /\ step' = 0
    /\ UNCHANGED <<fixed, cur_info, samples, need_size, last, given, writes>>

\* The buffer is released, then the callback reads it.
Give ==
    /\ step = Len(ops) + 1
    /\ work_buf' = work_buf \ {last}
    /\ given' = [info |-> cur_info, samples |-> samples, bytes |-> need_size]
    /\ step' = 0
    /\ UNCHANGED <<fixed, cur_info, samples, need_size, last, writes>>

Next == \/ \E n \in FrameSamples : Bypass(n) \/ Begin(n)
        \/ Convert \/ NoMemory \/ Give
Spec == Init /\ [][Next]_vars

-----------------------------------------------------------------------------
(* Properties *)

\* Whatever the order of the conversions and wherever an earlier frame was given up
\* for lack of memory, a frame leaves the resampler in the output format with the
\* bytes its samples need, and both work buffers are free for the next one.
LeavesConverted ==
    /\ given.info = output_info
    /\ given.bytes = given.samples * SampleSize(output_info)
    /\ step = 0 => work_buf = {}
=============================================================================
