------------------------------ MODULE UartAsync ------------------------------
(***************************************************************************)
(* Asynchronous reception of a UART (module/mcal, uart_interface.c): two    *)
(* buffers are handed to the driver in turn, by the callback that the       *)
(* driver's interrupt calls.                                               *)
(*                                                                         *)
(* The driver (external) fills one buffer and may ask for the next one at   *)
(* any time; when the first is full it goes on with the next, and stops     *)
(* where there is none, or on an error.                                    *)
(***************************************************************************)
EXTENDS Integers

NoBuffer == 2

VARIABLES
  async_mode,           \* rx_sem, callback and ring buffer are set up
  double_buffer_index,
  filling, next_buffer  \* the driver's buffers

uartVars == <<async_mode, double_buffer_index, filling, next_buffer>>

UartInit ==
  /\ async_mode = FALSE /\ double_buffer_index = 0
  /\ filling = NoBuffer /\ next_buffer = NoBuffer

SetupUartAsyncMode ==
  /\ async_mode' = TRUE
  /\ UNCHANGED <<double_buffer_index, filling, next_buffer>>

\* uart_rx_enable refuses when reception is enabled already.
StartUartAsyncReceive ==
  /\ double_buffer_index' = 0
  /\ filling' = IF filling = NoBuffer THEN 0 ELSE filling
  /\ UNCHANGED <<async_mode, next_buffer>>

-----------------------------------------------------------------------------
\* The driver.  Without a callback its events are lost.

\* Faulty variant: the index is not advanced.
BufRequestSame ==
  /\ async_mode /\ filling # NoBuffer /\ next_buffer = NoBuffer
  /\ next_buffer' = double_buffer_index
  /\ UNCHANGED <<async_mode, double_buffer_index, filling>>

\* UART_RX_BUF_REQUEST.
BufRequest ==
  /\ async_mode /\ filling # NoBuffer /\ next_buffer = NoBuffer
  /\ double_buffer_index' = 1 - double_buffer_index
  /\ next_buffer' = double_buffer_index'
  /\ UNCHANGED <<async_mode, filling>>

\* A full buffer: UART_RX_BUF_RELEASED, for which the callback does nothing.
BufReleased ==
  /\ filling # NoBuffer /\ next_buffer # NoBuffer
  /\ filling' = next_buffer /\ next_buffer' = NoBuffer
  /\ UNCHANGED <<async_mode, double_buffer_index>>

\* UART_RX_DISABLED: the callback enables reception again, from buffer 0.
RxDisabled ==
  /\ filling # NoBuffer
  /\ IF async_mode THEN filling' = 0 /\ double_buffer_index' = 0
                   ELSE filling' = NoBuffer /\ UNCHANGED double_buffer_index
  /\ next_buffer' = NoBuffer
  /\ UNCHANGED async_mode

UartInterrupt == BufRequest \/ BufReleased \/ RxDisabled

-----------------------------------------------------------------------------

\* The driver is never given the buffer it is filling as the next one, which
\* would overwrite data that was not yet copied (uart_interface.c:141-185).
BuffersApart == filling # NoBuffer => next_buffer # filling
=============================================================================
