-------------------------------- MODULE Uart --------------------------------
(***************************************************************************)
(* The receive path of the UART (uart-board.c) over the ring buffer of     *)
(* fifo.c.  The receive interrupt puts a byte into the ring between any    *)
(* two steps of UartMcuGetChar, which tests the ring with interrupts       *)
(* enabled and takes the byte with interrupts disabled.                    *)
(***************************************************************************)
EXTENDS Naturals, Sequences

CONSTANTS FifoRxSize,  \* Size of the ring
          Byte

ASSUME UartAssumption == FifoRxSize \in Nat \ {0, 1} /\ Byte # {}

VARIABLES fifoRx,      \* the ring: Begin, End, Data
          getChar,     \* UartMcuGetChar: where it is, and the byte it returned
          accepted     \* history: the bytes taken from the line and not yet read,
                       \* and the byte a reader should have got

uartVars == <<fifoRx, getChar, accepted>>

FifoNext(index) == (index + 1) % FifoRxSize

FifoPush(f, data) == [f EXCEPT !.End = FifoNext(@), !.Data[FifoNext(f.End)] = data]

FifoPopped(f) == f.Data[FifoNext(f.Begin)]
FifoPop(f)    == [f EXCEPT !.Begin = FifoNext(@)]

IsFifoEmpty(f) == f.Begin = f.End
IsFifoFull(f)  == FifoNext(f.End) = f.Begin

(* FifoInit with a cleared buffer. *)
UartInit ==
    /\ fifoRx = [Begin |-> 0, End |-> 0, Data |-> [i \in 0..(FifoRxSize - 1) |-> CHOOSE b \in Byte : TRUE]]
    /\ getChar = [pc |-> "idle", data |-> <<>>]
    /\ accepted = [bytes |-> <<>>, due |-> <<>>]

(* Mutant: the ring is not tested. *)
BugFullNotTested(b) ==
    /\ fifoRx' = FifoPush(fifoRx, b)
    /\ accepted' = [accepted EXCEPT !.bytes = Append(@, b)]
    /\ UNCHANGED getChar

(* A byte that finds the ring full is dropped. *)
HAL_UART_RxCpltCallback(b) ==
    /\ IF IsFifoFull(fifoRx) THEN UNCHANGED <<fifoRx, accepted>>
       ELSE /\ fifoRx' = FifoPush(fifoRx, b)
            /\ accepted' = [accepted EXCEPT !.bytes = Append(@, b)]
    /\ UNCHANGED getChar

(* Returns 1 when the ring is empty. *)
UartMcuGetChar ==
    /\ getChar.pc = "idle"
    /\ getChar' = [pc |-> IF IsFifoEmpty(fifoRx) THEN "idle" ELSE "pop", data |-> <<>>]
    /\ accepted' = [accepted EXCEPT !.due = <<>>]
    /\ UNCHANGED fifoRx

GetCharPop ==
    /\ getChar.pc = "pop"
    /\ getChar' = [pc |-> "idle", data |-> <<FifoPopped(fifoRx)>>]
    /\ fifoRx' = FifoPop(fifoRx)
    /\ accepted' = [bytes |-> Tail(accepted.bytes), due |-> <<Head(accepted.bytes)>>]

UartNext == UartMcuGetChar \/ GetCharPop \/ \E b \in Byte : HAL_UART_RxCpltCallback(b)

UartSpec == UartInit /\ [][UartNext]_uartVars
-----------------------------------------------------------------------------
(***************************************************************************)
(* Properties.                                                             *)
(***************************************************************************)
(* The types; both indices stay inside the ring. *)
UartTypeOK ==
    /\ fifoRx \in [Begin : 0..(FifoRxSize - 1), End : 0..(FifoRxSize - 1),
                   Data : [0..(FifoRxSize - 1) -> Byte]]
    /\ getChar.pc \in {"idle", "pop"}

(* The bytes in the ring, oldest first. *)
Queued(f) ==
    [i \in 1..((f.End + FifoRxSize - f.Begin) % FifoRxSize) |-> f.Data[(f.Begin + i) % FifoRxSize]]

(* The ring is a queue: it holds exactly the accepted bytes in order,      *)
(* never more than Size - 1, and GetChar returns the oldest of them,       *)
(* wherever the indices have wrapped and the interrupt comes.              *)
RxFifoInOrder == Queued(fifoRx) = accepted.bytes /\ getChar.data = accepted.due
=============================================================================
