------------------------------- MODULE Glamo --------------------------------
(***************************************************************************)
(* libglamo (gta02-dm1/user_space/libglamo): settings for the graphics     *)
(* chip are collected in a buffer and handed over through a queue in       *)
(* memory that the chip reads while the program goes on (dma.c), or        *)
(* written one by one.  Its users are the image functions (blit.c) and the *)
(* graphics test (graphics.c).  The chip is external.                      *)
(***************************************************************************)
EXTENDS Naturals, SequencesExt

CONSTANTS
  Ring,       \* ring_size: half-words of the queue, 512 in C; lbuf is as large
  CMDQ_LOOP,
  Images,     \* images to show: [format, width, height]
  MaxCalls    \* bound: calls of a program

ASSUME GlamoAssumption ==
  /\ Ring \in Nat /\ Ring % 2 = 0 /\ CMDQ_LOOP \in Nat /\ MaxCalls \in Nat
  /\ \A i \in Images : i.format \in {"I420", "YV16", "YUY2"} /\ {i.width, i.height} \subseteq Nat \ {0}

VARIABLES
  dma,        \* the manager: mode, lbuf, w, r, and how much of lbuf is flushed
  cmdq,       \* the memory of the queue
  chip,       \* its registers, pointers, the burst it is in, its clocks
  engine_status,
  blit,       \* the format of the image functions, "none", or "test" in the graphics test
  code,       \* what is left of the call that runs
  calls,      \* history: how many were made
  wanted,     \* history: the settings asked for
  right,      \* history: had the chip the settings wanted when it was last fired?
  ahead,      \* history: half-words put into the queue and not read by the chip
  hasty       \* history: a wait timed out, or the buffer was full

glamoVars == <<dma, cmdq, chip, engine_status, blit, code, calls, wanted, right, ahead, hasty>>

\* Registers; registers that are always set together are one, or two of a burst.
EN3 == 2  RGB == 4  ONFLY == 6  SCALEH_MATRIX == 8  SCALEV_MATRIX == 12  EN4 == 16
DEC_ADDR == 18  DEC_PITCH == 20  DEC_SIZE == 22  CAP_ADDR == 24  CAP_SIZE == 26  PORT1 == 28  SCALE == 30
GlamoRegs == {2 * i : i \in 0 .. 15}
BurstFlag == 2 ^ 15
-----------------------------------------------------------------------------
(***************************************************************************)
(* Settings: a register and its value, or the values of a burst.           *)
(***************************************************************************)
Out(reg, val)    == [reg |-> reg, vals |-> <<val>>]
Burst(reg, vals) == [reg |-> reg, vals |-> vals]

\* GLAMO_DMA_OUT, GLAMO_DMA_BURST: two half-words at a time.
Encoded(s) ==
  IF Len(s.vals) = 1 THEN <<s.reg, s.vals[1]>>
  ELSE <<BurstFlag + s.reg, Len(s.vals)>> \o s.vals
         \o (IF Len(s.vals) % 2 = 1 THEN <<0>> ELSE <<>>)
Words(settings) == FlattenSeq([i \in DOMAIN settings |-> Encoded(settings[i])])

With(regs, s) ==
  [r \in DOMAIN regs |->
     IF r >= s.reg /\ r < s.reg + 2 * Len(s.vals) THEN s.vals[((r - s.reg) \div 2) + 1] ELSE regs[r]]

\* dma_mmio_flush, and what the chip does with the queue: two half-words are
\* a register and a value, the head of a burst, or two values of one.  Where unread
\* cells were overwritten a head may name no register, and then nothing is set.
Take(t, a, b) ==
  IF t.left > 0
  THEN LET one == [t.regs EXCEPT ![t.reg] = a]
       IN  [regs |-> IF t.left > 1 THEN [one EXCEPT ![t.reg + 2] = b] ELSE one,
            reg |-> t.reg + 4, left |-> IF t.left > 2 THEN t.left - 2 ELSE 0]
  ELSE IF a >= BurstFlag THEN [t EXCEPT !.reg = a - BurstFlag, !.left = b]
  ELSE [t EXCEPT !.regs[a] = b]

dma_mmio_flush(words, regs) ==
  FoldLeft(LAMBDA t, i : Take(t, words[2 * i - 1], words[2 * i]),
           [regs |-> regs, reg |-> 0, left |-> 0], [i \in 1 .. Len(words) \div 2 |-> i]).regs
-----------------------------------------------------------------------------
(***************************************************************************)
(* Engines and their clocks (hw.c).  The library uses two of the four.     *)
(***************************************************************************)
Engines == {"ISP", "CMDQ"}
Clocks == [ISP  |-> {"EN_M2CLK", "EN_I1CLK", "EN_DIV_ICLK", "EN_DIV_JCLK", "MMIO_EN_ISP"},
           CMDQ |-> {"EN_M6CLK", "MMIO_EN_CMDQ"}]

glamo_hw_engine_enable(e) ==
  /\ engine_status' = engine_status \cup {e}
  /\ chip' = IF e \in engine_status THEN chip
             ELSE [chip EXCEPT !.clocks = @ \cup Clocks[e] \cup {"EN_DIV_MCLK"}]

glamo_hw_engine_disable(e) ==
  /\ engine_status' = engine_status \ {e}
  /\ chip' = IF e \in engine_status THEN [chip EXCEPT !.clocks = @ \ Clocks[e]] ELSE chip
-----------------------------------------------------------------------------
(***************************************************************************)
(* The manager (dma.c).                                                    *)
(***************************************************************************)
\* glamo_dma_new, dma_cmdq_init: two cells behind the queue are cleared.
glamo_dma_new(mode) ==
  /\ dma' = [mode |-> mode, lbuf |-> <<>>, at |-> 0, w |-> 0, r |-> 0]
  /\ cmdq' = IF mode = "CMDQ" THEN [cmdq EXCEPT ![Ring] = 0, ![Ring + 1] = 0] ELSE cmdq
  /\ engine_status' = engine_status \cup (IF mode = "CMDQ" THEN {"CMDQ"} ELSE {})
  /\ chip' = IF mode = "CMDQ"
             THEN [chip EXCEPT !.read = 0, !.write = 0, !.left = 0,
                               !.clocks = @ \cup Clocks["CMDQ"] \cup {"EN_DIV_MCLK"}]
             ELSE chip

glamo_dma_destroy ==
  /\ dma' = [dma EXCEPT !.mode = "none", !.lbuf = <<>>]
  /\ IF dma.mode = "CMDQ" THEN glamo_hw_engine_disable("CMDQ") ELSE UNCHANGED <<chip, engine_status>>

Runs(op) == code # <<>> /\ Head(code).op = op

\* GLAMO_DMA_BEGIN to GLAMO_DMA_END: what does not fit is flushed first.
Batch ==
  /\ Runs("batch")
  /\ LET words == Words(Head(code).settings)
     IN  IF Len(dma.lbuf) + Len(words) > Ring
         THEN code' = <<[op |-> "flush"]>> \o code /\ hasty' = TRUE /\ UNCHANGED <<dma, wanted>>
         ELSE /\ dma' = [dma EXCEPT !.lbuf = @ \o words]
              /\ wanted' = FoldLeft(With, wanted, Head(code).settings)
              /\ code' = Tail(code) /\ UNCHANGED hasty
  /\ UNCHANGED <<cmdq, chip, engine_status, blit, calls, right, ahead>>

\* dma_cmdq_flush, a half-word: the write pointer is never zero after it, so that
\* the read pointer, zero from the beginning, is never looked at.
Advance(w) == IF w >= Ring THEN 0 ELSE w
FlushWord ==
  /\ Runs("flush") /\ dma.mode = "CMDQ" /\ dma.at < Len(dma.lbuf)
  /\ LET w == Advance(dma.w)
         r == IF dma.r = w + 1 THEN 2 * chip.read ELSE dma.r
     IN  /\ r # w + 1
         /\ cmdq' = [cmdq EXCEPT ![w] = dma.lbuf[dma.at + 1]]
         /\ dma' = [dma EXCEPT !.at = @ + 1, !.w = w + 1, !.r = r]
  /\ ahead' = ahead + 1
  /\ UNCHANGED <<chip, engine_status, blit, code, calls, wanted, right, hasty>>

FlushEnd ==
  /\ Runs("flush") /\ (dma.mode = "CMDQ" => dma.at = Len(dma.lbuf))
  /\ dma' = [dma EXCEPT !.lbuf = <<>>, !.at = 0]
  /\ chip' = IF dma.mode = "CMDQ" THEN [chip EXCEPT !.write = dma.w]
             ELSE [chip EXCEPT !.regs = dma_mmio_flush(dma.lbuf, @)]
  /\ hasty' = (hasty \/ Len(dma.lbuf) = Ring)
  /\ code' = Tail(code)
  /\ UNCHANGED <<cmdq, engine_status, blit, calls, wanted, right, ahead>>

\* The chip takes two half-words.
ChipReads ==
  /\ "CMDQ" \in engine_status /\ chip.read # chip.write
  /\ LET c == IF chip.read >= Ring THEN 0 ELSE chip.read
         t == Take([regs |-> chip.regs, reg |-> chip.reg, left |-> chip.left], cmdq[c], cmdq[c + 1])
     IN  chip' = [chip EXCEPT !.regs = t.regs, !.reg = t.reg, !.left = t.left, !.read = c + 2]
  /\ ahead' = IF ahead > 2 THEN ahead - 2 ELSE 0
  /\ UNCHANGED <<dma, cmdq, engine_status, blit, code, calls, wanted, right, hasty>>

\* glamo_dma_wait: until the queue is empty, or for five seconds.
glamo_dma_wait_not(empty) == TRUE
glamo_dma_wait(empty) == empty
Wait ==
  /\ Runs("wait")
  /\ \/ (dma.mode = "CMDQ" => glamo_dma_wait(chip.read = chip.write)) /\ UNCHANGED hasty
     \/ dma.mode = "CMDQ" /\ chip.read # chip.write /\ hasty' = TRUE
  /\ code' = Tail(code)
  /\ UNCHANGED <<dma, cmdq, chip, engine_status, blit, calls, wanted, right, ahead>>
-----------------------------------------------------------------------------
(***************************************************************************)
(* Images (blit.c).  None of these calls flushes but showing one.          *)
(***************************************************************************)
Idle == code = <<>> /\ calls < MaxCalls /\ calls' = calls + 1
Program(ops) == code' = ops
Settings(s) == [op |-> "batch", settings |-> s]
Op(op) == [op |-> op]

Planar(format) == format # "YUY2"
glamo_blit_new(format) ==
  /\ Idle /\ dma.mode # "none" /\ blit = "none" /\ blit' = format
  /\ glamo_hw_engine_enable("ISP")
  /\ Program(<<Settings(<<Out(RGB, 1), Out(EN3, IF format = "I420" THEN 3 ELSE IF Planar(format) THEN 2 ELSE 1)>>),
               Settings(<<Out(ONFLY, 1)>>),
               Settings(<<Burst(SCALEH_MATRIX, <<1, 0>>)>>), Settings(<<Burst(SCALEV_MATRIX, <<1, 0>>)>>)>>)
  /\ UNCHANGED <<dma, cmdq, wanted, right, ahead, hasty>>

glamo_blit_rotate(rotation) ==
  /\ Idle /\ blit \notin {"none", "test"}
  /\ Program(<<Settings(<<Out(EN4, rotation)>>)>>)
  /\ UNCHANGED <<dma, cmdq, chip, engine_status, blit, wanted, right, ahead, hasty>>

\* glamo_blit_new_image: a planar image has even sides; where its planes begin
\* and how long their lines are.
Showable(i) == Planar(i.format) => i.width % 2 = 0 /\ i.height % 2 = 0
Offsets(i) ==
  LET luma == i.width * i.height
      chroma == CASE i.format = "I420" -> (i.width \div 2) * (i.height \div 2)
                  [] i.format = "YV16" -> (i.width \div 2) * i.height
                  [] i.format = "YUY2" -> 0
  IN  IF Planar(i.format) THEN <<0, luma, luma + chroma>> ELSE <<0>>
Pitches(i) == IF Planar(i.format) THEN <<i.width, i.width \div 2, i.width \div 2>> ELSE <<2 * i.width>>

blit_image_regs(i) ==
  IF Planar(i.format)
  THEN <<Out(DEC_PITCH, Pitches(i)[2]), Out(DEC_ADDR, Offsets(i)[3]), Out(DEC_SIZE, i.height)>>
  ELSE <<Out(CAP_ADDR, Offsets(i)[1]), Out(CAP_SIZE, i.height)>>
blit_port_regs(i) == <<Out(PORT1, i.width), Out(SCALE, 2 ^ 11)>> \* in its own size

glamo_blit_show_image(i) ==
  /\ Idle /\ blit = i.format /\ Showable(i)
  /\ Program(<<Settings(blit_image_regs(i)), Settings(blit_port_regs(i)),
               Op("flush"), Op("wait"), Op("fire")>>)
  /\ UNCHANGED <<dma, cmdq, chip, engine_status, blit, wanted, right, ahead, hasty>>

\* The end of glamo_blit_show_image: GLAMO_ISP_EN1_FIRE_ISP on and off.
Fire ==
  /\ Runs("fire") /\ Program(Tail(code))
  /\ right' = (chip.regs = wanted)
  /\ UNCHANGED <<dma, cmdq, chip, engine_status, blit, calls, wanted, ahead, hasty>>

glamo_blit_destroy ==
  /\ Idle /\ blit \notin {"none", "test"} /\ blit' = "none"
  /\ glamo_hw_engine_disable("ISP")
  /\ UNCHANGED <<dma, cmdq, code, wanted, right, ahead, hasty>>
-----------------------------------------------------------------------------
(***************************************************************************)
(* The manager is made and given up, by a program with images or by the    *)
(* graphics test: what it finds in the memory of the chip decides whether  *)
(* it goes on to the queue, and after each of its commands what it reads   *)
(* back of the write pointer.                                              *)
(***************************************************************************)
Open ==
  /\ Idle /\ dma.mode = "none" /\ \E mode \in {"MMIO", "CMDQ"} : glamo_dma_new(mode)
  /\ ahead' = 0 /\ hasty' = FALSE /\ right' = TRUE /\ wanted' = chip.regs
  /\ UNCHANGED <<blit, code>>

vram_test == BOOLEAN
cmdq_test == FlattenSeq([i \in 1 .. CMDQ_LOOP |->
                          <<Settings(<<Out(0, 0), Out(0, 0)>>), Op("flush"), Op("check"), Op("wait")>>])
graphics_test ==
  /\ Idle /\ dma.mode = "none" /\ \E ok \in vram_test :
       IF ok THEN glamo_dma_new("CMDQ") /\ blit' = "test" /\ Program(Append(cmdq_test, Op("close")))
       ELSE UNCHANGED <<dma, cmdq, chip, engine_status, blit, code>>
  /\ ahead' = 0 /\ hasty' = FALSE /\ right' = TRUE /\ wanted' = chip.regs

Check ==
  /\ Runs("check") /\ (Program(Tail(code)) \/ Program(<<Op("close")>>))
  /\ UNCHANGED <<dma, cmdq, chip, engine_status, blit, calls, wanted, right, ahead, hasty>>

Close ==
  /\ \/ Runs("close") /\ Program(Tail(code)) /\ UNCHANGED calls
     \/ Idle /\ dma.mode # "none" /\ blit = "none" /\ UNCHANGED code
  /\ blit' = "none" /\ glamo_dma_destroy
  /\ UNCHANGED <<cmdq, wanted, right, ahead, hasty>>

GlamoInit ==
  /\ dma = [mode |-> "none", lbuf |-> <<>>, at |-> 0, w |-> 0, r |-> 0]
  /\ cmdq = [c \in 0 .. Ring + 1 |-> 0]
  /\ chip = [regs |-> [r \in GlamoRegs |-> 0], reg |-> 0, left |-> 0, read |-> 0, write |-> 0, clocks |-> {}]
  /\ engine_status = {} /\ blit = "none" /\ code = <<>> /\ calls = 0
  /\ wanted = chip.regs /\ right = TRUE /\ ahead = 0 /\ hasty = FALSE

GlamoNext ==
  \/ Open \/ Close \/ Batch \/ FlushWord \/ FlushEnd \/ Wait \/ ChipReads \/ Fire
  \/ graphics_test \/ Check \/ glamo_blit_destroy
  \/ \E f \in {i.format : i \in Images} : glamo_blit_new(f)
  \/ \E r \in 1 .. 2 : glamo_blit_rotate(r)
  \/ \E i \in Images : glamo_blit_show_image(i)
-----------------------------------------------------------------------------
(***************************************************************************)
(* Properties.                                                             *)
(***************************************************************************)
\* No command is overwritten before the chip has read it: not by the graphics test,
\* whose waits may all time out ("wait timeout", dma.c:146), nor by images, until a
\* wait times out or the buffer runs full.
NoneOverwritten == (~ hasty \/ blit = "test") => ahead <= Ring

\* An engine in use has its clocks, and one not in use has none of its own.
ClockedInUse ==
  \A e \in Engines : IF e \in engine_status THEN Clocks[e] \subseteq chip.clocks
                                            ELSE Clocks[e] \cap chip.clocks = {}

\* The chip is fired with every setting of the image and no other
\* (glamo_blit_show_image, blit.c:421): they went through the buffer, the queue
\* around its end, and bursts, while the chip read them.
PictureAsAsked == (right \/ hasty) /\ NoneOverwritten /\ ClockedInUse
=============================================================================
