------------------------------- MODULE Logger -------------------------------
(***************************************************************************)
(* logger.cpp: its mutex.  Every task of the program logs, waiting for the *)
(* mutex without limit; what is printed is left out.  That a task deleted  *)
(* by another one keeps the mutex for ever is FreeRTOS's rule (external).  *)
(***************************************************************************)
CONSTANTS
  NONE,     \* no task
  DELETED   \* a task that no longer exists

ASSUME LoggerAssumption == NONE # DELETED

VARIABLE loggerOwner   \* the task that holds gLoggerMutex, or NONE

LoggerInit == loggerOwner = NONE

\* xSemaphoreTake(gLoggerMutex, portMAX_DELAY) at the top of logger_log.
TakeLogger(task) ==
  /\ loggerOwner = NONE
  /\ loggerOwner' = task

\* Mutant: a return before xSemaphoreGive.
GiveLoggerForgotten(task) ==
  /\ loggerOwner = task
  /\ UNCHANGED loggerOwner

\* Serial.printf is done.
GiveLogger(task) ==
  /\ loggerOwner = task
  /\ loggerOwner' = NONE

\* vTaskDelete(task) by another task.
LoseHolder(task) ==
  loggerOwner' = IF loggerOwner = task THEN DELETED ELSE loggerOwner

LoggerLost == loggerOwner = DELETED
=============================================================================
